---- MODULE Spec2Model ----
(***************************************************************************)
(* Model of the game-automation content script (src/unnamed/part_000,      *)
(* second revision, lines 869-2216).                                       *)
(*                                                                         *)
(* The module holds several specifications over one set of variables:      *)
(*   Spec      the loop controller: startBot / stopBot / loop / main,      *)
(*             determineGameState and the lobby dwell timer;               *)
(*   SpecWait  one call of waitForCondition against a changing page;       *)
(*   SpecInfo  the PlayerInfo extraction of inGame over roster snapshots;  *)
(*   SpecGame  one invocation of inGame: the day and night role handlers.  *)
(* Each specification leaves the variables of the others unchanged.        *)
(***************************************************************************)
EXTENDS Integers, Sequences, FiniteSets, TLC

(***************************************************************************)
(* Bounds of the model.                                                    *)
(***************************************************************************)
\* number of loop closures that can exist at once
MaxChains == 2
\* number of clock ticks of the loop specification
MaxTicks == 3
\* the counter of stuck-lobby reloads saturates here
MaxReloads == 2
\* number of clock ticks of the wait specification
MaxWaitTicks == 3
\* the counter of conditionFn evaluations saturates here
MaxEvals == 3
\* number of roster rows of the extraction specification
MaxRows == 3
\* number of performClick requests the background serves at a time
MaxReqs == 2
\* number of interval timers a wait of a handler sets before its timeout is up
MaxPolls == 2
\* number of role images getPlayerRole is applied to
MaxImgs == 2
\* number of [tabindex="0"] elements a click helper searches
MaxElems == 2

(***************************************************************************)
(* Program constants.                                                      *)
(***************************************************************************)
\* a ceiling of one minute
LOBBY_TIMEOUT_OneMinute == 1 * 60 * 1000

LOBBY_TIMEOUT == 2 * 60 * 1000

\* shooterAction gives up beyond this number of vote markers
MaxVoteMarkers == 4

\* one tick of the model clock: half the lobby ceiling, so that a dwell
\* time equal to the ceiling and one beyond it both occur
TickMs == LOBBY_TIMEOUT \div 2

\* the default polling interval of the waitFor* helpers, and the unit of the
\* clock of the wait specification
DefaultInterval == 200

\* JavaScript null for the timestamp and for the timer handle
NullTime == 0 - 1
NoHandle == 0

\* GameState (enum)
GameState == {"UNKNOWN", "LOBBY", "ROLE_SELECTION", "IN_GAME", "POST_GAME",
              "CUSTOM", "HOME_SCREEN", "GAME_SCREEN"}

\* the words gameIsOver looks for in document.body.textContent
GameOverWords == {"Continue", "Play again", "Victory", "Defeat", "Draw"}

(***************************************************************************)
(* Page snapshots of the loop specification.  inner is the set of text     *)
(* fragments contained in document.body.innerText, tc the set of game-over *)
(* words contained in document.body.textContent, more tells whether a      *)
(* [tabindex=0] control with the text MORE PLAYERS REQUIRED exists.        *)
(***************************************************************************)
Pg(inner, tc, more) == [inner |-> inner, tc |-> tc, more |-> more]

Pages ==
    { Pg({}, {}, FALSE),
      Pg({"START GAME", "INVITE"}, {}, FALSE),
      Pg({"START GAME", "INVITE"}, {}, TRUE),
      Pg({"INVITE"}, {}, TRUE),
      Pg({"INVENTORY"}, {}, FALSE),
      Pg({"CUSTOM GAME", "INVENTORY"}, {}, FALSE),
      Pg({"CREATE GAME", "CUSTOM GAME"}, {}, FALSE),
      Pg({"SELECT A ROLE"}, {}, FALSE),
      Pg({"Welcome to the werewolves chat."}, {}, FALSE),
      Pg({"Welcome to the werewolves chat."}, {"Victory"}, FALSE),
      Pg({"Continue", "Welcome to the werewolves chat."}, {"Continue", "Victory"}, FALSE) }

VARIABLES
    BOT_RUNNING,          \* let BOT_RUNNING
    ACTIVE_NAME,          \* let ACTIVE_NAME
    loopHandle,           \* let loopHandle: the chain whose timer was set last
    lobbyEntryTimestamp,  \* let lobbyEntryTimestamp
    chain,                \* the loop closures created by startBot
    now,                  \* Date.now()
    page,                 \* the document of the loop specification
    reloadPending,        \* location.reload() was called, the page not yet replaced
    dwellReloads,         \* stuck-lobby reloads issued since the timestamp was set
    lastCheck,            \* latest result and number (0, 1, 2 = more) of the
                          \* determineGameState calls on the page text as it is
    autoPending,          \* the storage callback of the auto-start has not run yet
    names                 \* the display names the popup and the storage hold

loopVars == <<BOT_RUNNING, ACTIVE_NAME, loopHandle, lobbyEntryTimestamp, chain,
              now, page, reloadPending, dwellReloads, lastCheck, autoPending, names>>

VARIABLES
    wPc,        \* waitForCondition: "idle", "scheduled" (setTimeout(check) pending), "resolved"
    wArgs,      \* its arguments: conditionFn, timeout, interval, cancelConditions
    wStart,     \* const startTime
    wDue,       \* the time at which the pending check timer may fire
    wResult,    \* the value the promise was resolved with
    wResolves,  \* number of resolve() calls
    wEvals,     \* number of conditionFn() evaluations (saturating)
    predVal,    \* what a DOM-reading conditionFn returns on the page as it is
    wText       \* the cancel-text fragments contained in document.body.innerText

waitVars == <<wPc, wArgs, wStart, wDue, wResult, wResolves, wEvals, predVal, wText>>

VARIABLES
    roster,     \* the roster rows of the document, in document order
    info,       \* const playerInfo of inGame
    gPc         \* position of the inGame call

infoVars == <<roster, info, gPc>>

VARIABLES
    label,      \* getLabelBeforeTime() at the dispatch of inGame
    over,       \* the game-over words contained in document.body.textContent
    voting,     \* the text Voting is on the page
    timer,      \* the countdown text on the page
    armed,      \* the trigger and action icons of the role's ability are shown
    chat,       \* getMessages(): the messages of the chat, each a sequence of words
    acts,       \* the clicks and chat messages issued so far
    smPc,       \* the un-awaited sendMessageAndAct call
    smTarget,   \* its targetElement (a row index, 0 for null)
    cbPc,       \* the pending setTimeout callback of the Priest or tagging flow
    need,       \* voteMarkersToFind of the running shooterAction
    entryOver,  \* the game-over words on the page when inGame was invoked
    lastWait    \* how the last wait of the handler ended

gameVars == <<label, over, voting, timer, armed, chat, acts, smPc, smTarget, cbPc,
              need, entryOver, lastWait>>

VARIABLES
    attachedTarget,  \* let attachedTarget of the background: a tab id, 0 for null
    dbg,             \* the tabs the browser has this extension's debugger attached to
    gameTab,         \* the first tab chrome.tabs.query finds, 0 if it finds none
    req              \* the performClick requests being served

clickVars == <<attachedTarget, dbg, gameTab, req>>

VARIABLES
    hPc,    \* the await the handler called by main is suspended at, "-" outside
    hLeft,  \* interval timers left before the timeout of the handler's wait is up
    hTry,   \* completed rounds of the retry loop or recursion the handler is in
    hCond   \* what the page shows to the handler's wait

runVars == <<hPc, hLeft, hTry, hCond>>

VARIABLES
    imgs,   \* the role image filenames getPlayerRole is called with
    roles   \* what the calls made so far returned

roleVars == <<imgs, roles>>

VARIABLES
    dom,    \* the [tabindex="0"] elements a click helper searches, in document order
    sent    \* the performClick messages sent: the helper and the element

helperVars == <<dom, sent>>

VARIABLES
    oPc,      \* the MutationObserver-based wait: "idle", "observing", "resolved"
    oResult   \* the value its promise was resolved with

obsVars == <<oPc, oResult>>

vars == <<loopVars, waitVars, infoVars, gameVars, clickVars, runVars, roleVars, obsVars,
          helperVars>>

\* what a step of the loop specification leaves alone
LoopFrame == UNCHANGED <<waitVars, infoVars, gameVars, clickVars, runVars, roleVars, obsVars, helperVars>>

\* the loop controller state, which the other specifications leave alone
LoopStill == UNCHANGED <<BOT_RUNNING, ACTIVE_NAME, loopHandle, lobbyEntryTimestamp,
                         chain, page, reloadPending, dwellReloads, lastCheck,
                         autoPending, names, clickVars, runVars, roleVars, obsVars, helperVars>>

(***************************************************************************)
(* JavaScript values, and the state of the parts that are at rest.         *)
(***************************************************************************)
\* null and undefined among strings
Null == "null"
Undefined == "undefined"

\* a falsy conditionFn result, and the null a wait resolves with
Falsy == 0
NullResult == 0

NoArgs == [fn |-> "never", timeout |-> 0, interval |-> 0,
           cancel |-> [kind |-> "null", texts |-> <<>>]]

NoInfo == [number |-> Null, role |-> "Unknown", coupleNumber1 |-> Null,
           coupleRole1 |-> Null, coupleNumber2 |-> Null, coupleRole2 |-> Null]

WaitIdle ==
    /\ wPc = "idle"
    /\ wArgs = NoArgs
    /\ wStart = 0
    /\ wDue = 0
    /\ wResult = NullResult
    /\ wResolves = 0
    /\ wEvals = 0
    /\ predVal = Falsy
    /\ wText = {}

InfoIdle ==
    /\ roster = <<>>
    /\ info = NoInfo
    /\ gPc = "idle"

\* a request slot that serves no request
NoReq == [pc |-> "idle", x |-> 0, y |-> 0, button |-> "", tab |-> 0, victim |-> 0,
          target |-> 0, events |-> <<>>, resp |-> <<>>]

ClickIdle ==
    /\ attachedTarget = 0
    /\ dbg = {}
    /\ gameTab = 0
    /\ req = <<>>

\* no handler is running
RunIdle ==
    /\ hPc = "-"
    /\ hLeft = 0
    /\ hTry = 0
    /\ hCond = "none"

\* getPlayerRole was not called
RoleIdle ==
    /\ imgs = <<>>
    /\ roles = <<>>

\* no click helper was called
HelperIdle ==
    /\ dom = <<>>
    /\ sent = <<>>

ObsIdle ==
    /\ oPc = "idle"
    /\ oResult = NullResult

GameIdle ==
    /\ label = Null
    /\ over = {}
    /\ voting = FALSE
    /\ timer = "40s"
    /\ armed = FALSE
    /\ chat = <<>>
    /\ acts = {}
    /\ smPc = "none"
    /\ smTarget = 0
    /\ cbPc = "none"
    /\ need = 0
    /\ entryOver = {}
    /\ lastWait = "-"


Chains == 1..MaxChains

(***************************************************************************)
(* gameIsOver and determineGameState.                                      *)
(***************************************************************************)
gameIsOverText(tc) == tc \cap GameOverWords # {}

\* a classifier that tests the menu screens before the in-game screen
determineGameStateMenuFirst(p) ==
    IF "Continue" \in p.inner THEN "POST_GAME"
    ELSE IF "SELECT A ROLE" \in p.inner \/ "Team: You belong to" \in p.inner
         THEN "ROLE_SELECTION"
    ELSE IF "CREATE GAME" \in p.inner THEN "CUSTOM"
    ELSE IF "CUSTOM GAME" \in p.inner THEN "GAME_SCREEN"
    ELSE IF "INVENTORY" \in p.inner THEN "HOME_SCREEN"
    ELSE IF "START GAME" \in p.inner /\ "INVITE" \in p.inner THEN "LOBBY"
    ELSE IF ("Welcome to the werewolves chat." \in p.inner \/ "Voting" \in p.inner)
            /\ ~gameIsOverText(p.tc) THEN "IN_GAME"
    ELSE "UNKNOWN"

\* a classifier that folds the dwell check into the classification
determineGameStateDwell(p) ==
    IF lobbyEntryTimestamp # NullTime /\ now - lobbyEntryTimestamp > LOBBY_TIMEOUT
    THEN "UNKNOWN"
    ELSE IF "Continue" \in p.inner THEN "POST_GAME"
    ELSE IF "START GAME" \in p.inner /\ "INVITE" \in p.inner THEN "LOBBY"
    ELSE "UNKNOWN"

determineGameState(p) ==
    IF "Continue" \in p.inner THEN "POST_GAME"
    ELSE IF ("Welcome to the werewolves chat." \in p.inner \/ "Voting" \in p.inner)
            /\ ~gameIsOverText(p.tc) THEN "IN_GAME"
    ELSE IF "SELECT A ROLE" \in p.inner \/ "Team: You belong to" \in p.inner
         THEN "ROLE_SELECTION"
    ELSE IF "CREATE GAME" \in p.inner THEN "CUSTOM"
    ELSE IF "CUSTOM GAME" \in p.inner THEN "GAME_SCREEN"
    ELSE IF "INVENTORY" \in p.inner THEN "HOME_SCREEN"
    ELSE IF "START GAME" \in p.inner /\ "INVITE" \in p.inner THEN "LOBBY"
    ELSE "UNKNOWN"

(***************************************************************************)
(* The loop closures.  pc of a chain:                                      *)
(*   free        no such closure (never created, or ended)                 *)
(*   begin       loop() was entered, main is about to classify             *)
(*   classified  main holds currentState, the dwell logic is next          *)
(*   handler     main is suspended inside the handler it awaits            *)
(*   timer       setTimeout(loop, 1500) is pending                         *)
(* begin and classified are positions inside one synchronous run of        *)
(* JavaScript: while a chain is there nothing else can happen.             *)
(***************************************************************************)
FreeChain == [pc |-> "free", name |-> "", st |-> "-", err |-> FALSE]

SyncBusy == \E c \in Chains : chain[c].pc \in {"begin", "classified"}

InFlight(c) == chain[c].pc \in {"begin", "classified", "handler"}

\* handlers that contain an await on a wait or a sleep
Suspending == {"IN_GAME", "POST_GAME", "CUSTOM", "HOME_SCREEN", "GAME_SCREEN"}

\* no determineGameState call was made on the page as it is now
NoCheck == [res |-> "-", calls |-> 0]

\* the content script right after its load, on page p
LoopStart(p) ==
    /\ BOT_RUNNING = FALSE
    /\ ACTIVE_NAME = ""
    /\ loopHandle = NoHandle
    /\ lobbyEntryTimestamp = NullTime
    /\ chain = [c \in Chains |-> FreeChain]
    /\ now = 0
    /\ page = p
    /\ reloadPending = FALSE
    /\ dwellReloads = 0
    /\ lastCheck = NoCheck
    /\ autoPending = TRUE
    /\ names = {"Alex"}

LoopInit == \E p \in Pages : LoopStart(p)

\* the loop controller at rest, for the specifications that do not run it
LoopIdle == LoopStart(Pg({}, {}, FALSE))

\* startBot(name): the guard, the flags, and the call of loop()
startBot(name) ==
    IF BOT_RUNNING
    THEN UNCHANGED <<BOT_RUNNING, ACTIVE_NAME, chain>>
    ELSE \E c \in Chains :
            /\ chain[c].pc = "free"
            /\ \A d \in Chains : d < c => chain[d].pc # "free"
            /\ BOT_RUNNING' = TRUE
            /\ ACTIVE_NAME' = name
            /\ chain' = [chain EXCEPT ![c] = [pc |-> "begin", name |-> name, st |-> "-",
                                               err |-> FALSE]]

\* stopBot(): the guard, the flag, and clearTimeout(loopHandle)
stopBot ==
    IF ~BOT_RUNNING
    THEN UNCHANGED <<BOT_RUNNING, chain>>
    ELSE /\ BOT_RUNNING' = FALSE
         /\ chain' = IF loopHandle # NoHandle /\ chain[loopHandle].pc = "timer"
                     THEN [chain EXCEPT ![loopHandle] = FreeChain]
                     ELSE chain

\* a startBot needs a free closure slot in the model
CanStart == BOT_RUNNING \/ \E c \in Chains : chain[c].pc = "free"

\* chrome.runtime.onMessage listener: {action: 'toggleBot', enabled, name}
ToggleBot(enabled, name) ==
    /\ ~SyncBusy
    /\ ~autoPending
    /\ IF enabled
       THEN CanStart /\ startBot(name)
       ELSE stopBot /\ UNCHANGED ACTIVE_NAME
    /\ UNCHANGED <<loopHandle, lobbyEntryTimestamp, now, page, reloadPending,
                   dwellReloads, lastCheck, autoPending, names>>
    /\ LoopFrame

\* the chrome.storage.local.get callback that runs once after the load
AutoStart(isRunning, name) ==
    /\ ~SyncBusy
    /\ autoPending
    /\ autoPending' = FALSE
    /\ IF isRunning
       THEN startBot(name)
       ELSE UNCHANGED <<BOT_RUNNING, ACTIVE_NAME, chain>>
    /\ UNCHANGED <<loopHandle, lobbyEntryTimestamp, now, page, reloadPending,
                   dwellReloads, lastCheck, names>>
    /\ LoopFrame

\* the timer of setTimeout(loop, 1500) fires: loop() is entered
TimerFire(c) ==
    /\ ~SyncBusy
    /\ chain[c].pc = "timer"
    /\ chain' = [chain EXCEPT ![c].pc = "begin", ![c].err = FALSE]
    /\ UNCHANGED <<BOT_RUNNING, ACTIVE_NAME, loopHandle, lobbyEntryTimestamp, now,
                   page, reloadPending, dwellReloads, lastCheck, autoPending, names>>
    /\ LoopFrame

\* main: const currentState = determineGameState()
Classify(c) ==
    /\ chain[c].pc = "begin"
    /\ chain' = [chain EXCEPT ![c].pc = "classified",
                              ![c].st = determineGameState(page)]
    /\ lastCheck' = [res |-> determineGameState(page),
                      calls |-> IF lastCheck.calls = 0 THEN 1 ELSE 2]
    /\ UNCHANGED <<BOT_RUNNING, ACTIVE_NAME, loopHandle, lobbyEntryTimestamp, now,
                   page, reloadPending, dwellReloads, autoPending, names>>
    /\ LoopFrame

\* a loop without the try: an error that main raises ends the chain
FinallyUncaught(c, ch) ==
    IF BOT_RUNNING /\ ~ch[c].err
    THEN /\ chain' = [ch EXCEPT ![c] = [pc |-> "timer", name |-> ch[c].name, st |-> "-",
                                        err |-> ch[c].err]]
         /\ loopHandle' = c
    ELSE /\ chain' = [ch EXCEPT ![c] = FreeChain]
         /\ loopHandle' = loopHandle

\* loop: the catch and finally blocks that follow the settling of main; err
\* tells whether the catch block logged an error
Finally(c, ch) ==
    IF BOT_RUNNING
    THEN /\ chain' = [ch EXCEPT ![c] = [pc |-> "timer", name |-> ch[c].name, st |-> "-",
                                        err |-> ch[c].err]]
         /\ loopHandle' = c
    ELSE /\ chain' = [ch EXCEPT ![c] = FreeChain]
         /\ loopHandle' = loopHandle

Bump(n) == IF n < MaxReloads THEN n + 1 ELSE n

\* handleLobbyState past its reload branch: the performClick messages it
\* sends.  It looks up the visible START GAME control into startGameButton
\* and returns without using it.
lobbyClicks(p) == <<>>

\* a switch whose HOME_SCREEN case runs into the GAME_SCREEN case
mainCallsFallThrough(st, stuck) ==
    IF stuck THEN ""
    ELSE CASE st = "LOBBY" -> "handleLobbyState"
           [] st = "ROLE_SELECTION" -> "handleRoleSelectionState"
           [] st = "IN_GAME" -> "inGame"
           [] st = "POST_GAME" -> "playAgain"
           [] st = "CUSTOM" -> "customLobby"
           [] st = "HOME_SCREEN" -> "handleGameScreen"
           [] st = "GAME_SCREEN" -> "handleGameScreen"
           [] OTHER -> ""

\* main: the handler the iteration calls for the classification st, "" for
\* none; stuck is the early return after the stuck-lobby reload
mainCalls(st, stuck) ==
    IF stuck THEN ""
    ELSE CASE st = "LOBBY" -> "handleLobbyState"
           [] st = "ROLE_SELECTION" -> "handleRoleSelectionState"
           [] st = "IN_GAME" -> "inGame"
           [] st = "POST_GAME" -> "playAgain"
           [] st = "CUSTOM" -> "customLobby"
           [] st = "HOME_SCREEN" -> "handleHomeScreen"
           [] st = "GAME_SCREEN" -> "handleGameScreen"
           [] OTHER -> ""

\* the handlers that contain an await on a wait or a sleep
SuspendingHandlers ==
    {"inGame", "playAgain", "customLobby", "handleHomeScreen", "handleGameScreen"}

\* main: the lobby dwell logic, then the switch that calls the handler
Track(c) ==
    /\ chain[c].pc = "classified"
    /\ LET s == chain[c].st
           stuck == /\ s = "LOBBY"
                    /\ lobbyEntryTimestamp # NullTime
                    /\ now - lobbyEntryTimestamp > LOBBY_TIMEOUT
           h == mainCalls(s, stuck)
       IN /\ lobbyEntryTimestamp' =
                IF s = "LOBBY"
                THEN (IF lobbyEntryTimestamp = NullTime THEN now ELSE lobbyEntryTimestamp)
                ELSE NullTime
          /\ dwellReloads' =
                IF stuck THEN Bump(dwellReloads)
                ELSE IF s = "LOBBY" /\ lobbyEntryTimestamp # NullTime THEN dwellReloads
                ELSE 0
          /\ reloadPending' =
                (reloadPending \/ stuck \/ (h = "handleLobbyState" /\ page.more))
          /\ sent' = IF h = "handleLobbyState" /\ ~page.more
                     THEN sent \o lobbyClicks(page) ELSE sent
          /\ \/ /\ h \notin SuspendingHandlers
                /\ Finally(c, chain)
             \/ /\ h \in SuspendingHandlers
                /\ chain' = [chain EXCEPT ![c].pc = "handler"]
                /\ loopHandle' = loopHandle
    /\ UNCHANGED <<BOT_RUNNING, ACTIVE_NAME, now, page, lastCheck, autoPending, names>>
    /\ UNCHANGED <<waitVars, infoVars, gameVars, clickVars, runVars, roleVars, obsVars, dom>>

\* the handler awaited by main settles: it returns, or it throws and main
\* rejects
Settle(c) ==
    /\ ~SyncBusy
    /\ chain[c].pc = "handler"
    /\ \E threw \in BOOLEAN : Finally(c, [chain EXCEPT ![c].err = threw])
    /\ UNCHANGED <<BOT_RUNNING, ACTIVE_NAME, lobbyEntryTimestamp, now, page,
                   reloadPending, dwellReloads, lastCheck, autoPending, names>>
    /\ LoopFrame

\* the third-party page rewrites its DOM
PageChange ==
    /\ ~SyncBusy
    /\ page' \in Pages \ {page}
    /\ lastCheck' = NoCheck
    /\ UNCHANGED <<BOT_RUNNING, ACTIVE_NAME, loopHandle, lobbyEntryTimestamp, chain,
                   now, reloadPending, dwellReloads, autoPending, names>>
    /\ LoopFrame

Tick ==
    /\ ~SyncBusy
    /\ now < MaxTicks * TickMs
    /\ now' = now + TickMs
    /\ UNCHANGED <<BOT_RUNNING, ACTIVE_NAME, loopHandle, lobbyEntryTimestamp, chain,
                   page, reloadPending, dwellReloads, lastCheck, autoPending, names>>
    /\ LoopFrame

\* the reload completes: a new document, and the content script starts afresh
PageReplaced ==
    /\ ~SyncBusy
    /\ reloadPending
    /\ BOT_RUNNING' = FALSE
    /\ ACTIVE_NAME' = ""
    /\ loopHandle' = NoHandle
    /\ lobbyEntryTimestamp' = NullTime
    /\ chain' = [c \in Chains |-> FreeChain]
    /\ page' \in Pages
    /\ reloadPending' = FALSE
    /\ dwellReloads' = 0
    /\ lastCheck' = NoCheck
    /\ autoPending' = TRUE
    /\ hPc' = "-" /\ hLeft' = 0 /\ hTry' = 0 /\ hCond' = "none"
    /\ sent' = <<>>
    /\ UNCHANGED <<now, names>>
    /\ UNCHANGED <<waitVars, infoVars, gameVars, clickVars, roleVars, obsVars, dom>>

ToggleOn == \E n \in names : ToggleBot(TRUE, n)
ToggleOff == ToggleBot(FALSE, "")
AutoStartStep == \E r \in BOOLEAN, n \in names : AutoStart(r, n)
TimerFireStep == \E c \in Chains : TimerFire(c)
ClassifyStep == \E c \in Chains : Classify(c)
TrackStep == \E c \in Chains : Track(c)
SettleStep == \E c \in Chains : Settle(c)

(***************************************************************************)
(* The roster.  A row is one element of allPlayerElements: seat is the     *)
(* digit string its text starts with, mine tells whether its textContent   *)
(* includes myName, icons are the file names of its img elements in        *)
(* document order.  The code looks at a file name only through             *)
(* String.includes and RegExp.test with fixed keys: FileKeys lists, for    *)
(* each file name, the keys it contains.                                   *)
(***************************************************************************)
Sticker == "cupid_select_lovers_sticker_small.png"

FileKeys(f) ==
    CASE f = "wolf.png" -> {"wolf"}
      [] f = "junior_werewolf.png" -> {"junior_werewolf", "wolf"}
      [] f = "splitwolf.png" -> {"splitwolf", "wolf"}
      [] f = "priest.png" -> {"priest"}
      [] f = "gunner.png" -> {"gunner"}
      [] f = "villager.png" -> {}
      [] f = "juniorwerewolf.png" -> {"juniorwerewolf", "wolf"}
      [] f = "split_wolf.png" -> {"split_wolf", "wolf"}
      [] f = "vigilante.png" -> {"vigilante"}
      [] f = "priest_gunner.png" -> {"priest", "gunner"}
      [] f = Sticker -> {"cupid", "cupid_select_lovers_sticker_small"}
      [] f = "vote_day_selected.png" -> {"vote_day", "vote_day_selected"}
      [] f = "hand-skin.png" -> {"hand-skin"}
      [] f = "vote_werewolves_voter.png" -> {"vote_werewolves", "vote_werewolves_voter"}
      [] f = "junior_werewolf_selection_marker.png" ->
             {"junior_werewolf", "wolf", "junior_werewolf_selection_marker"}
      [] f = "splitwolf_bind.png" -> {"splitwolf", "wolf", "splitwolf_bind"}
      [] f = "priest_holy_water.png" -> {"priest", "priest_holy_water"}
      [] f = "gunner_bullet.png" -> {"gunner", "gunner_bullet"}
      [] f = "gunner_voting_shoot.png" -> {"gunner", "gunner_voting_shoot"}
      [] OTHER -> {}

\* filename.includes(key)
Includes(f, key) == key \in FileKeys(f)

WOLF_ROLES == {"Wolf", "Junior Werewolf", "Split Wolf"}

\* a roleMap whose first key is 'wolf'
RoleKeysWolfFirst == <<"wolf", "juniorwerewolf", "junior_werewolf", "split_wolf",
                       "splitwolf", "priest", "vigilante", "gunner">>

\* roleMap of getPlayerRole, in the order of Object.keys
RoleKeys == <<"juniorwerewolf", "junior_werewolf", "split_wolf", "splitwolf",
              "wolf", "priest", "vigilante", "gunner">>

RoleOfKey(k) ==
    CASE k \in {"juniorwerewolf", "junior_werewolf"} -> "Junior Werewolf"
      [] k \in {"split_wolf", "splitwolf"} -> "Split Wolf"
      [] k = "wolf" -> "Wolf"
      [] k = "priest" -> "Priest"
      [] k \in {"vigilante", "gunner"} -> "Shooter"

\* !roleImageFilename
FalsyName(f) == f \in {Undefined, Null, ""}

getPlayerRole(f) ==
    IF FalsyName(f) THEN "Unknown"
    ELSE LET hits == {i \in 1..Len(RoleKeys) : Includes(f, RoleKeys[i])}
         IN IF hits = {} THEN "Other"
            ELSE RoleOfKey(RoleKeys[CHOOSE i \in hits : \A j \in hits : i <= j])

Row(seat, mine, icons) == [seat |-> seat, mine |-> mine, icons |-> icons]

\* the elements of a sequence that satisfy Test, in order
RECURSIVE SelectIdx(_, _, _)
SelectIdx(rows, keep, i) ==
    IF i > Len(rows) THEN <<>>
    ELSE (IF i \in keep THEN <<i>> ELSE <<>>) \o SelectIdx(rows, keep, i + 1)

\* loverElements: the rows that carry the pairing sticker (as row indices)
loverElements(rows) ==
    SelectIdx(rows,
              {i \in 1..Len(rows) :
                 \E j \in 1..Len(rows[i].icons) :
                    Includes(rows[i].icons[j], "cupid_select_lovers_sticker_small")},
              1)

\* loverElements.filter(el => !el.textContent.includes(myName))
othersOf(rows) ==
    LET l == loverElements(rows)
    IN SelectIdx(rows, {i \in 1..Len(rows) : (\E k \in 1..Len(l) : l[k] = i)
                                              /\ ~rows[i].mine}, 1)

\* loverElements.filter(el => el.textContent.includes(myName))
mineOf(rows) ==
    LET l == loverElements(rows)
    IN SelectIdx(rows, {i \in 1..Len(rows) : (\E k \in 1..Len(l) : l[k] = i)
                                              /\ rows[i].mine}, 1)

\* coupleElements[k], k = 0, 1, after the padding with null (0 is null)
coupleElement(rows, k) ==
    IF k + 1 <= Len(othersOf(rows)) THEN othersOf(rows)[k + 1] ELSE 0

IsDecoration(f) ==
    Includes(f, "vote_day") \/ Includes(f, "hand-skin") \/ Includes(f, "cupid")

\* extractRoleImage of one image set: walk back over the decorations
RECURSIVE extractRoleImageFrom(_, _)
extractRoleImageFrom(set, i) ==
    IF i < 1 THEN Undefined
    ELSE IF IsDecoration(set[i]) THEN extractRoleImageFrom(set, i - 1)
    ELSE set[i]

extractRoleImage(set) == extractRoleImageFrom(set, Len(set))

\* a getRoleFromImage that maps a missing role image like getPlayerRole does
getRoleFromImageUnknown(img) == getPlayerRole(img)

\* const getRoleFromImage = (img) => img ? getPlayerRole(img) : null
getRoleFromImage(img) == IF FalsyName(img) THEN Null ELSE getPlayerRole(img)

\* const getPlayerNumber = (el) => el ? (el.textContent.match(/\d+/)?.[0] || null) : null
getPlayerNumber(rows, i) == IF i = 0 THEN Null ELSE rows[i].seat

\* coupleRoleImages[k]: undefined beyond the end of the array
coupleRoleImage(rows, k) ==
    IF k + 1 <= Len(othersOf(rows))
    THEN extractRoleImage(rows[othersOf(rows)[k + 1]].icons)
    ELSE Undefined

\* myRoleImages[0]
myRoleImage(rows) ==
    IF Len(mineOf(rows)) >= 1 THEN extractRoleImage(rows[mineOf(rows)[1]].icons)
    ELSE Undefined

\* allPlayerElements.find(el => el.textContent.includes(myName)) (0: none)
myPlayerElement(rows) ==
    IF \E i \in 1..Len(rows) : rows[i].mine
    THEN CHOOSE i \in 1..Len(rows) : rows[i].mine /\ \A j \in 1..(i - 1) : ~rows[j].mine
    ELSE 0

\* const playerInfo = { ... }
playerInfo(rows) ==
    [number        |-> getPlayerNumber(rows, myPlayerElement(rows)),
     role          |-> getPlayerRole(myRoleImage(rows)),
     coupleNumber1 |-> getPlayerNumber(rows, coupleElement(rows, 0)),
     coupleRole1   |-> getRoleFromImage(coupleRoleImage(rows, 0)),
     coupleNumber2 |-> getPlayerNumber(rows, coupleElement(rows, 1)),
     coupleRole2   |-> getRoleFromImage(coupleRoleImage(rows, 1))]

(***************************************************************************)
(* SpecInfo: the extraction of inGame over roster snapshots.               *)
(***************************************************************************)
\* the icon lists a roster row of the extraction specification may show
InfoIcons ==
    { <<"wolf.png">>,
      <<"wolf.png", Sticker>>,
      <<"priest.png", Sticker, "vote_day_selected.png">>,
      <<Sticker>>,
      <<"junior_werewolf.png", Sticker>>,
      <<"villager.png", "hand-skin.png", Sticker>>,
      <<"gunner.png", Sticker>>,
      <<"splitwolf.png", Sticker, "hand-skin.png">> }

Seats == <<"1", "2", "3", "4", "5", "6">>

\* rosters of n rows; the seat numbers ascend, and skip the seats in gaps
RostersOf(n, icons) ==
    { [i \in 1..n |-> Row(Seats[i + (IF i >= g THEN 1 ELSE 0)], m[i], ic[i])] :
        g \in {1, n + 1}, m \in [1..n -> BOOLEAN], ic \in [1..n -> icons] }

InfoInit ==
    /\ LoopIdle
    /\ WaitIdle
    /\ GameIdle
    /\ ClickIdle
    /\ RunIdle
    /\ RoleIdle
    /\ HelperIdle
    /\ ObsIdle
    /\ \E n \in 0..MaxRows : roster \in RostersOf(n, InfoIcons)
    /\ info = NoInfo
    /\ gPc = "idle"

\* inGame up to the construction of playerInfo
BuildInfo ==
    /\ gPc = "idle"
    /\ info' = playerInfo(roster)
    /\ gPc' = "built"
    /\ UNCHANGED roster
    /\ LoopStill
    /\ UNCHANGED <<now, waitVars, gameVars>>

InfoNext == BuildInfo

SpecInfo == InfoInit /\ [][InfoNext]_vars

(***************************************************************************)
(* waitForCondition(conditionFn, timeout, interval, cancelConditions).     *)
(* conditionFn is "never" (a predicate that is always falsy) or "dom" (a   *)
(* predicate that reads the page: its value is predVal).  A falsy value is *)
(* Falsy, a truthy one an element 1, 2.  cancelConditions is null, one     *)
(* string, or an array of strings; the strings are non-empty.              *)
(***************************************************************************)
Elements == {1, 2}

CancelFrags == {"Continue", "START GAME", "Play again"}

CancelArgs ==
    { [kind |-> "null", texts |-> <<>>],
      [kind |-> "string", texts |-> <<"Continue">>],
      [kind |-> "array", texts |-> <<>>],
      [kind |-> "array", texts |-> <<"START GAME", "Play again">>] }

Timeouts == {0, DefaultInterval, 2 * DefaultInterval}
Intervals == {0, DefaultInterval, 2 * DefaultInterval}

WaitArgs == [fn : {"never", "dom"}, timeout : Timeouts, interval : Intervals,
             cancel : CancelArgs]

\* const cancelTexts = cancelConditions ? (Array.isArray(..) ? .. : [..]) : []
cancelTexts(cc) == IF cc.kind = "null" THEN <<>> ELSE cc.texts

\* a find that only succeeds when every cancel text is on the page
foundCancelTextAll(texts, pageText) ==
    \A i \in 1..Len(texts) : texts[i] \in pageText

\* cancelTexts.find(text => pageText.includes(text)) is truthy
foundCancelText(texts, pageText) ==
    \E i \in 1..Len(texts) : texts[i] \in pageText

conditionFn(a) == IF a.fn = "never" THEN Falsy ELSE predVal

\* the three outcomes of check(), with the cancel test ahead of the predicate
checkOutcomeCancelFirst(a, start) ==
    IF Len(cancelTexts(a.cancel)) > 0 /\ foundCancelText(cancelTexts(a.cancel), wText)
    THEN [resolve |-> TRUE, value |-> NullResult]
    ELSE IF conditionFn(a) # Falsy
    THEN [resolve |-> TRUE, value |-> conditionFn(a)]
    ELSE IF now - start >= a.timeout
    THEN [resolve |-> TRUE, value |-> NullResult]
    ELSE [resolve |-> FALSE, value |-> NullResult]

\* const check = () => { ... }: resolve with a value, or schedule again
checkOutcome(a, start) ==
    IF conditionFn(a) # Falsy
    THEN [resolve |-> TRUE, value |-> conditionFn(a)]
    ELSE IF Len(cancelTexts(a.cancel)) > 0 /\ foundCancelText(cancelTexts(a.cancel), wText)
    THEN [resolve |-> TRUE, value |-> NullResult]
    ELSE IF now - start >= a.timeout
    THEN [resolve |-> TRUE, value |-> NullResult]
    ELSE [resolve |-> FALSE, value |-> NullResult]

\* one run of check() for the call with arguments a that started at start
check(a, start) ==
    LET o == checkOutcome(a, start)
    IN /\ wEvals' = IF wEvals < MaxEvals THEN wEvals + 1 ELSE wEvals
       /\ IF o.resolve
          THEN /\ wPc' = "resolved"
               /\ wResult' = o.value
               /\ wResolves' = wResolves + 1
               /\ wDue' = wDue
          ELSE /\ wPc' = "scheduled"
               /\ wDue' = now + a.interval
               /\ UNCHANGED <<wResult, wResolves>>

WaitFrame == LoopStill /\ UNCHANGED <<infoVars, gameVars>>

WaitInit ==
    /\ LoopIdle
    /\ InfoIdle
    /\ GameIdle
    /\ ClickIdle
    /\ RunIdle
    /\ RoleIdle
    /\ HelperIdle
    /\ ObsIdle
    /\ wPc = "idle"
    /\ wArgs = NoArgs
    /\ wStart = 0
    /\ wDue = 0
    /\ wResult = NullResult
    /\ wResolves = 0
    /\ wEvals = 0
    /\ predVal \in {Falsy} \cup Elements
    /\ wText \in SUBSET CancelFrags

\* the call: the promise executor takes startTime and runs check() at once
WaitCall(a) ==
    /\ wPc = "idle"
    /\ wArgs' = a
    /\ wStart' = now
    /\ check(a, now)
    /\ UNCHANGED <<now, predVal, wText>>
    /\ WaitFrame

\* the timer of setTimeout(check, interval) fires, at its due time or later
WaitTimer ==
    /\ wPc = "scheduled"
    /\ now >= wDue
    /\ check(wArgs, wStart)
    /\ UNCHANGED <<now, wArgs, wStart, predVal, wText>>
    /\ WaitFrame

\* the page changes: the predicate's value and the texts on the page
WaitDom ==
    /\ predVal' \in {Falsy} \cup Elements
    /\ wText' \in SUBSET CancelFrags
    /\ <<predVal', wText'>> # <<predVal, wText>>
    /\ UNCHANGED <<now, wPc, wArgs, wStart, wDue, wResult, wResolves, wEvals>>
    /\ WaitFrame

WaitTick ==
    /\ now < MaxWaitTicks * DefaultInterval
    /\ now' = now + DefaultInterval
    /\ UNCHANGED waitVars
    /\ WaitFrame

WaitCallStep == \E a \in WaitArgs : WaitCall(a)

WaitNext ==
    \/ WaitCallStep
    \/ WaitTimer
    \/ WaitDom
    \/ WaitTick

SpecWait == WaitInit /\ [][WaitNext]_vars

(***************************************************************************)
(* SpecObs: the MutationObserver-based waitForTextInDOM / waitForExactText *)
(* of the earlier revision and the polling version, called at the same     *)
(* time with the same text, timeout and cancel text, on the same page.     *)
(* predVal is the visible element that holds the text (Falsy if there is   *)
(* none).  A page change is a mutation of one kind; the observer is        *)
(* registered for childList and characterData mutations of the subtree.    *)
(***************************************************************************)
MutationKinds == {"childList", "characterData", "attributes"}

\* observer.observe(document.body, {childList, subtree, characterData})
Observed(kind) == kind \in {"childList", "characterData"}

\* the arguments of a text wait: a predicate that reads the page, and a
\* cancel text that is null or one string
TextWaitArgs == {a \in WaitArgs : a.fn = "dom" /\ a.cancel.kind \in {"null", "string"}}

\* what the steps of the two waits leave alone
ObsFrame ==
    UNCHANGED <<BOT_RUNNING, ACTIVE_NAME, loopHandle, lobbyEntryTimestamp, chain,
                page, reloadPending, dwellReloads, lastCheck, autoPending, names,
                infoVars, gameVars, clickVars, runVars, roleVars, helperVars>>

ObsStill == UNCHANGED <<wArgs, wStart, now>> /\ ObsFrame

\* both versions are called: the polling one runs check() at once, the
\* observer one scans the document and resolves, or starts to observe
ObsCall(a) ==
    /\ wPc = "idle" /\ oPc = "idle"
    /\ wArgs' = a
    /\ wStart' = now
    /\ check(a, now)
    /\ IF predVal # Falsy
       THEN oPc' = "resolved" /\ oResult' = predVal
       ELSE oPc' = "observing" /\ oResult' = oResult
    /\ UNCHANGED <<now, predVal, wText>>
    /\ ObsFrame

\* the page changes by a mutation of one kind; the observer callback runs
\* for the kinds it is registered for: the cancel text first, then the
\* added nodes and the parent of the changed text
ObsMutation(kind) ==
    /\ predVal' \in {Falsy} \cup Elements
    /\ wText' \in SUBSET CancelFrags
    /\ <<predVal', wText'>> # <<predVal, wText>>
    /\ IF oPc = "observing" /\ Observed(kind)
       THEN IF wArgs.cancel.kind = "string" /\ wArgs.cancel.texts[1] \in wText'
            THEN oPc' = "resolved" /\ oResult' = NullResult
            ELSE IF predVal' # Falsy /\ predVal' # predVal
            THEN oPc' = "resolved" /\ oResult' = predVal'
            ELSE UNCHANGED <<oPc, oResult>>
       ELSE UNCHANGED <<oPc, oResult>>
    /\ UNCHANGED <<wPc, wDue, wResult, wResolves, wEvals>>
    /\ ObsStill

\* the polling version's timer fires
ObsPoll ==
    /\ wPc = "scheduled"
    /\ now >= wDue
    /\ check(wArgs, wStart)
    /\ UNCHANGED <<predVal, wText, oPc, oResult>>
    /\ ObsStill

\* the observer version's timeout timer fires
ObsTimeout ==
    /\ oPc = "observing"
    /\ now - wStart >= wArgs.timeout
    /\ oPc' = "resolved"
    /\ oResult' = NullResult
    /\ UNCHANGED <<wPc, wDue, wResult, wResolves, wEvals, predVal, wText>>
    /\ ObsStill

ObsTick ==
    /\ now < MaxWaitTicks * DefaultInterval
    /\ now' = now + DefaultInterval
    /\ UNCHANGED <<waitVars, obsVars>>
    /\ ObsFrame

ObsCallStep == \E a \in TextWaitArgs : ObsCall(a)
ObsMutationStep == \E kind \in MutationKinds : ObsMutation(kind)

ObsInit == WaitInit

ObsNext ==
    \/ ObsCallStep
    \/ ObsMutationStep
    \/ ObsPoll
    \/ ObsTimeout
    \/ ObsTick

SpecObs == ObsInit /\ [][ObsNext]_vars

\* C36: the observer-based and the polling text waits have the same
\* external behaviour: either resolves to null only when no visible element
\* holds the text (on cancel text or timeout), so that both resolve to the
\* element once it exists, also when the text becomes visible through a
\* style or attribute change.
C36_ObserverLikePolling ==
    [][/\ (wPc # "resolved" /\ wPc' = "resolved" /\ wResult' = NullResult)
             => predVal = Falsy
       /\ (oPc = "observing" /\ oPc' = "resolved" /\ oResult' = NullResult)
             => predVal' = Falsy]_vars

(***************************************************************************)
(* SpecGame: one invocation of inGame(myName).  Every action is one        *)
(* synchronous run of the handler code, from the point where it resumes to *)
(* its next await (or its return).  A wait or a sleep the handler awaits   *)
(* is a position of gPc; the page changes while the handler is suspended.  *)
(* Time is not measured here: a wait whose predicate is falsy and whose    *)
(* cancel text is absent may end by its timeout.                           *)
(***************************************************************************)
\* gameIsOver() on the page of the game specification
gameIsOver == gameIsOverText(over)

\* a click or a chat message; over tells whether a game-over word was on
\* the page when it was issued
Act(kind, row, msg) ==
    [kind |-> kind, row |-> row, msg |-> msg, over |-> over # {}]

NoMsg == [form |-> "-", num |-> Null]

Emit(as) == acts' = acts \cup as

\* the value set on the chat box and the click on the send icon
ChatAct(form, num) == Act("chat", 0, [form |-> form, num |-> num])

\* clickOutermostElement(row)
RowClick(i) == Act("row", i, NoMsg)

\* clickElementByImage(regex) for a trigger, bullet or selection-marker
\* icon: a click if such a control is on the page
TriggerClick == IF armed THEN {Act("trigger", 0, NoMsg)} ELSE {}

\* clickElementByImageInElement(row, actionRegex): a click if the row shows
\* the icon
AbilityClick(i) == IF armed THEN {Act("ability", i, NoMsg)} ELSE {}

\* click(clickableButton) of the tagging callback
TagClick(i) == IF armed THEN {Act("tag", i, NoMsg)} ELSE {}

RowHas(i, key) == \E j \in 1..Len(roster[i].icons) : Includes(roster[i].icons[j], key)

\* the rows with an image whose src includes vote_day_selected
Voted == {i \in 1..Len(roster) : RowHas(i, "vote_day_selected")}

\* Array.prototype.find over row indices: 0 for undefined
FirstOf(S) == IF S = {} THEN 0 ELSE CHOOSE i \in S : \A j \in S : i <= j

\* the outcome of waitForCondition for a predicate that is found or not, as
\* check() decides it
waitOutcome(found) ==
    IF found THEN "found"
    ELSE IF "Continue" \in over THEN "cancelled"
    ELSE "timeout"

\* some element's textContent includes the text
includesText(text) ==
    CASE text = "Voting" -> voting
      [] text = "25s" -> timer = "25s"
      [] text = "5s" -> timer \in {"5s", "25s"}
      [] OTHER -> FALSE

\* some element's textContent matches \btext\b
exactText(text) ==
    CASE text = "Voting" -> voting
      [] OTHER -> timer = text

\* msg.match(/\b\d{1,2}\b/g) on the words of a message
IsNumber12(w) == w \in {"1", "2", "02", "3", "4", "7"}

RECURSIVE flatNumbers(_, _)
flatNumbers(msgs, i) ==
    IF i > Len(msgs) THEN <<>>
    ELSE SelectSeq(msgs[i], IsNumber12) \o flatNumbers(msgs, i + 1)

\* messages?.flatMap(msg => msg.match(/\b\d{1,2}\b/g) || [])
mentionedNumbers == flatNumbers(chat, 1)

isWolfCoupled(pi) == pi.coupleRole1 \in WOLF_ROLES \/ pi.coupleRole2 \in WOLF_ROLES

\* playerImages.some(imgSet => imgSet.some(img => img.includes('cupid')))
alreadyVotedForCouple ==
    \E k \in 1..Len(mineOf(roster)) : RowHas(mineOf(roster)[k], "cupid")

\* the test of the day signalling with the first partner's seat in the place
\* of the own seat
mentionedPartner(pi) ==
    \E i \in 1..Len(mentionedNumbers) : mentionedNumbers[i] = pi.coupleNumber1

\* mentionedNumbers?.some(num => num == playerInfo.number)
mentioned(pi) ==
    \E i \in 1..Len(mentionedNumbers) : mentionedNumbers[i] = pi.number

\* isPartnerAWolf ? slot 0 : slot 1, with isPartnerAWolf = !WOLF_ROLES.has(coupleRole1)
nightSlot(pi) == IF pi.coupleRole1 \notin WOLF_ROLES THEN 0 ELSE 1

nightNumber(pi) == IF nightSlot(pi) = 0 THEN pi.coupleNumber1 ELSE pi.coupleNumber2

\* a test that lets only the pair of two wolves go without a night action
noNightActionBothOnly(pi) ==
    pi.coupleRole1 \in WOLF_ROLES /\ pi.coupleRole2 \in WOLF_ROLES

\* both partners wolves, or a wolf partner and no second partner
noNightAction(pi) ==
    \/ pi.coupleRole1 \in WOLF_ROLES /\ pi.coupleRole2 \in WOLF_ROLES
    \/ pi.coupleRole1 \in WOLF_ROLES /\ pi.coupleRole2 = Null

isPriestCoupled(pi) == pi.coupleRole1 = "Priest" \/ pi.coupleRole2 = "Priest"

GameStill == LoopStill /\ UNCHANGED <<now, waitVars>>

\* sendMessageAndAct up to its sleep(500)
SendMessage(form, num, target) ==
    /\ Emit({ChatAct(form, num)})
    /\ smPc' = "sleep"
    /\ smTarget' = target

\* a handler without the game-over return at its entry
EntryNoReturn == FALSE

\* the game-over return at the entry of inGameDay and of inGameNight
EntryReturn == gameIsOver

\* inGameDay up to its first await, for the player info pi
DayStart(pi) ==
    IF EntryReturn THEN gPc' = "done" /\ UNCHANGED <<acts, cbPc, need>>
    ELSE IF ~isWolfCoupled(pi)
    THEN IF pi.role \in WOLF_ROLES
         THEN IF mentioned(pi) \/ gameIsOver
              THEN gPc' = "done" /\ UNCHANGED <<acts, cbPc, need>>
              ELSE /\ Emit({ChatAct("plain", pi.number)})
                   /\ gPc' = "d_sleep500"
                   /\ UNCHANGED <<cbPc, need>>
         ELSE IF pi.role \in {"Priest", "Shooter"}
              THEN gPc' = "d_waitVote" /\ UNCHANGED <<acts, cbPc, need>>
              ELSE gPc' = "done" /\ UNCHANGED <<acts, cbPc, need>>
    ELSE LET targetLover == IF pi.coupleRole1 \in WOLF_ROLES
                            THEN coupleElement(roster, 0) ELSE coupleElement(roster, 1)
             vote == IF alreadyVotedForCouple THEN {} ELSE {RowClick(targetLover)}
         IN IF pi.role = "Priest"
            THEN /\ Emit(vote \cup TriggerClick)
                 /\ cbPc' = "priest"
                 /\ gPc' = "done"
                 /\ need' = need
            ELSE IF pi.role = "Shooter"
            THEN /\ Emit(vote)
                 /\ need' = 2
                 /\ gPc' = "s_wait"
                 /\ cbPc' = cbPc
            ELSE /\ Emit(vote)
                 /\ gPc' = "done"
                 /\ UNCHANGED <<cbPc, need>>

\* inGameNight up to its first await
NightStart(pi) ==
    /\ UNCHANGED <<acts, cbPc, need>>
    /\ IF EntryReturn THEN gPc' = "done"
       ELSE IF pi.role = "Wolf" THEN gPc' = "n_wait25"
       ELSE IF pi.role \in {"Junior Werewolf", "Split Wolf"}
       THEN (IF noNightAction(pi) \/ gameIsOver THEN gPc' = "done" ELSE gPc' = "t_wait25")
       ELSE gPc' = "done"

\* inGame: the player info, then the day or the night handler
GameStart ==
    /\ gPc = "idle"
    /\ info' = playerInfo(roster)
    /\ entryOver' = over
    /\ IF label \in {"Discussion", "Voting"} THEN DayStart(info')
       ELSE IF label = "" THEN NightStart(info')
       ELSE gPc' = "done" /\ UNCHANGED <<acts, cbPc, need>>
    /\ UNCHANGED <<roster, label, over, voting, timer, armed, chat, smPc, smTarget,
                   lastWait>>
    /\ GameStill

\* the sleep(500) after the wolf's day message ends
DaySleepEnd ==
    /\ gPc = "d_sleep500"
    /\ gPc' = "done"
    /\ UNCHANGED <<roster, info, gameVars>>
    /\ GameStill

\* waitForImageInDOM('vote_day_selected') ends; the trigger click follows
DayWaitVoteEnd ==
    /\ gPc = "d_waitVote"
    /\ lastWait' = waitOutcome(Voted # {})
    /\ IF gameIsOver THEN gPc' = "done" /\ UNCHANGED acts
       ELSE Emit(TriggerClick) /\ gPc' = "d_sleep200"
    /\ UNCHANGED <<roster, info, label, over, voting, timer, armed, chat, smPc,
                   smTarget, cbPc, need, entryOver>>
    /\ GameStill

\* the sleep(200) ends: the ability click on the row with the vote marker
DayAbility ==
    /\ gPc = "d_sleep200"
    /\ LET votedPlayer == FirstOf(Voted)
       IN IF votedPlayer # 0 THEN Emit(AbilityClick(votedPlayer))
          ELSE UNCHANGED acts
    /\ gPc' = "done"
    /\ UNCHANGED <<roster, info, label, over, voting, timer, armed, chat, smPc,
                   smTarget, cbPc, need, entryOver, lastWait>>
    /\ GameStill

\* shooterAction: waitForImageCountInDOM ends; the bullet click follows
ShooterWaitEnd ==
    /\ gPc = "s_wait"
    /\ lastWait' = waitOutcome(Cardinality(Voted) >= need)
    /\ IF gameIsOver THEN gPc' = "done" /\ UNCHANGED acts
       ELSE Emit(TriggerClick) /\ gPc' = "s_sleep200"
    /\ UNCHANGED <<roster, info, label, over, voting, timer, armed, chat, smPc,
                   smTarget, cbPc, need, entryOver>>
    /\ GameStill

\* shooterAction: the sleep(200) ends; the shot, or the retry sleep
ShooterShoot ==
    /\ gPc = "s_sleep200"
    /\ LET others == {othersOf(roster)[k] : k \in 1..Len(othersOf(roster))}
           target == FirstOf({i \in Voted : i \notin others /\ ~roster[i].mine})
       IN IF target # 0
          THEN Emit(AbilityClick(target)) /\ gPc' = "done"
          ELSE UNCHANGED acts /\ gPc' = "s_sleep500"
    /\ UNCHANGED <<roster, info, label, over, voting, timer, armed, chat, smPc,
                   smTarget, cbPc, need, entryOver, lastWait>>
    /\ GameStill

\* a recursion whose cap lets a search for one marker more go on
ShooterRetryLate ==
    /\ gPc = "s_sleep500"
    /\ need' = need + 1
    /\ gPc' = IF need + 1 > MaxVoteMarkers + 1 THEN "done" ELSE "s_wait"
    /\ UNCHANGED <<roster, info, label, over, voting, timer, armed, chat, acts, smPc,
                   smTarget, cbPc, entryOver, lastWait>>
    /\ GameStill

\* shooterAction: the sleep(500) ends; the recursive call with one more marker
ShooterRetry ==
    /\ gPc = "s_sleep500"
    /\ need' = need + 1
    /\ gPc' = IF need + 1 > MaxVoteMarkers THEN "done" ELSE "s_wait"
    /\ UNCHANGED <<roster, info, label, over, voting, timer, armed, chat, acts, smPc,
                   smTarget, cbPc, entryOver, lastWait>>
    /\ GameStill

\* the Wolf branch: the wait for 25s ends; the message is sent
WolfWait25End ==
    /\ gPc = "n_wait25"
    /\ lastWait' = waitOutcome(includesText("25s"))
    /\ IF gameIsOver \/ includesText("Voting") \/ noNightAction(info)
       THEN gPc' = "done" /\ UNCHANGED <<acts, smPc, smTarget>>
       ELSE /\ SendMessage(IF isPriestCoupled(info) THEN "priest" ELSE "plain",
                           nightNumber(info), coupleElement(roster, nightSlot(info)))
            /\ gPc' = "n_wait5"
    /\ UNCHANGED <<roster, info, label, over, voting, timer, armed, chat, cbPc, need,
                   entryOver>>
    /\ GameStill

\* the role image the Wolf branch reads off a row: the last icon that is no
\* vote marker and no hand skin
RECURSIVE nightRoleImageFrom(_, _)
nightRoleImageFrom(set, i) ==
    IF i < 1 THEN ""
    ELSE IF Includes(set[i], "vote_day") \/ Includes(set[i], "vote_werewolves")
            \/ Includes(set[i], "hand-skin")
    THEN nightRoleImageFrom(set, i - 1)
    ELSE set[i]

\* the rows of a Junior Werewolf that show a werewolf-vote marker
JuniorVoted ==
    {i \in 1..Len(roster) :
        /\ ~FalsyName(nightRoleImageFrom(roster[i].icons, Len(roster[i].icons)))
        /\ getPlayerRole(nightRoleImageFrom(roster[i].icons, Len(roster[i].icons)))
              = "Junior Werewolf"
        /\ RowHas(i, "vote_werewolves_voter")}

\* the Wolf branch: the wait for 5s ends; the Junior Werewolf correction
WolfWait5End ==
    /\ gPc = "n_wait5"
    /\ lastWait' = waitOutcome(exactText("5s"))
    /\ IF gameIsOver \/ includesText("Voting")
       THEN gPc' = "done" /\ UNCHANGED acts
       ELSE IF JuniorVoted # {} /\ ~isPriestCoupled(info)
       THEN IF coupleElement(roster, nightSlot(info)) = 0
            THEN gPc' = "threw" /\ UNCHANGED acts
            ELSE /\ Emit({RowClick(coupleElement(roster, nightSlot(info)))})
                 /\ gPc' = "n_waitV"
       ELSE gPc' = "n_waitV" /\ UNCHANGED acts
    /\ UNCHANGED <<roster, info, label, over, voting, timer, armed, chat, smPc,
                   smTarget, cbPc, need, entryOver>>
    /\ GameStill

\* a final waitForTextInDOM('Voting') ends
WaitVotingEnd ==
    /\ gPc \in {"n_waitV", "t_waitV"}
    /\ lastWait' = waitOutcome(includesText("Voting"))
    /\ gPc' = "done"
    /\ UNCHANGED <<roster, info, label, over, voting, timer, armed, chat, acts, smPc,
                   smTarget, cbPc, need, entryOver>>
    /\ GameStill

\* handleWolfTagging: the wait for 25s ends; the message is sent
TagWait25End ==
    /\ gPc = "t_wait25"
    /\ lastWait' = waitOutcome(includesText("25s"))
    /\ IF gameIsOver \/ includesText("Voting")
       THEN gPc' = "done" /\ UNCHANGED <<acts, smPc, smTarget>>
       ELSE /\ SendMessage("who", nightNumber(info),
                           coupleElement(roster, nightSlot(info)))
            /\ gPc' = "t_wait5"
    /\ UNCHANGED <<roster, info, label, over, voting, timer, armed, chat, cbPc, need,
                   entryOver>>
    /\ GameStill

\* handleWolfTagging: the wait for 5s ends; the marker click and the timer
TagWait5End ==
    /\ gPc = "t_wait5"
    /\ lastWait' = waitOutcome(exactText("5s"))
    /\ IF gameIsOver \/ includesText("Voting")
       THEN gPc' = "done" /\ UNCHANGED <<acts, cbPc>>
       ELSE Emit(TriggerClick) /\ cbPc' = "tag" /\ gPc' = "t_waitV"
    /\ UNCHANGED <<roster, info, label, over, voting, timer, armed, chat, smPc,
                   smTarget, need, entryOver>>
    /\ GameStill

\* sendMessageAndAct after its sleep(500): the click on the partner's row
SendWake ==
    /\ smPc = "sleep"
    /\ smPc' = "done"
    /\ IF smTarget # 0
          /\ (~isPriestCoupled(info) \/ info.role = "Junior Werewolf")
       THEN Emit({RowClick(smTarget)})
       ELSE UNCHANGED acts
    /\ UNCHANGED <<roster, info, gPc, label, over, voting, timer, armed, chat,
                   smTarget, cbPc, need, entryOver, lastWait>>
    /\ GameStill

\* parseInt(token, 10)
ParseInt(tok) ==
    CASE tok = "1" -> 1 [] tok = "2" -> 2 [] tok = "02" -> 2 [] tok = "3" -> 3
      [] tok = "4" -> 4 [] tok = "5" -> 5 [] tok = "7" -> 7
      [] OTHER -> 0

\* the first mentioned number that is none of the three seats of the player
\* info (undefined if there is none)
RECURSIVE taggedFrom(_, _)
taggedFrom(pi, i) ==
    IF i > Len(mentionedNumbers) THEN Undefined
    ELSE IF mentionedNumbers[i] \in {pi.number, pi.coupleNumber1, pi.coupleNumber2}
    THEN taggedFrom(pi, i + 1)
    ELSE mentionedNumbers[i]

\* the 200 ms callback of the Priest flow or of the tagging flow runs; the
\* tagging callback throws on a number that indexes no row
CallbackFire ==
    /\ cbPc \in {"priest", "tag"}
    /\ IF cbPc = "priest"
       THEN /\ IF Len(roster) > 0 THEN Emit(AbilityClick(1)) ELSE UNCHANGED acts
            /\ cbPc' = "ran"
       ELSE LET taggedNumber == taggedFrom(info, 1)
                idx == ParseInt(taggedNumber)
            IN IF taggedNumber = Undefined THEN cbPc' = "ran" /\ UNCHANGED acts
               ELSE IF idx \notin 1..Len(roster) THEN cbPc' = "threw" /\ UNCHANGED acts
               ELSE Emit(TagClick(idx)) /\ cbPc' = "ran"
    /\ UNCHANGED <<roster, info, gPc, label, over, voting, timer, armed, chat, smPc,
                   smTarget, need, entryOver, lastWait>>
    /\ GameStill

\* the game-over words a page of the game specification may show
OverTexts == {{}, {"Continue"}, {"Victory"}}

Suspended == gPc \notin {"idle", "done", "threw"}

Pending == Suspended \/ smPc = "sleep" \/ cbPc \in {"priest", "tag"}

\* the game ends, or the end screen changes or goes away
EnvOver ==
    /\ Pending
    /\ over' \in OverTexts \ {over}
    /\ UNCHANGED <<roster, info, gPc, label, voting, timer, armed, chat, acts, smPc,
                   smTarget, cbPc, need, entryOver, lastWait>>
    /\ GameStill

\* a day vote marker appears on row i, or disappears
EnvVote(i) ==
    /\ Suspended
    /\ label \in {"Discussion", "Voting"}
    /\ roster' = [roster EXCEPT ![i].icons =
                     IF RowHas(i, "vote_day_selected")
                     THEN SelectSeq(@, LAMBDA f : f # "vote_day_selected.png")
                     ELSE Append(@, "vote_day_selected.png")]
    /\ UNCHANGED <<info, gPc, gameVars>>
    /\ GameStill

\* the countdown texts of the game specification
TimerTexts == {"40s", "25s", "5s"}

\* the night page: the countdown runs down, then the Voting text appears
EnvNight ==
    /\ Suspended
    /\ label = ""
    /\ ~voting
    /\ \/ timer = "40s" /\ timer' = "25s" /\ voting' = voting
       \/ timer = "25s" /\ timer' = "5s" /\ voting' = voting
       \/ timer = "5s" /\ timer' = timer /\ voting' = TRUE
    /\ UNCHANGED <<roster, info, gPc, label, over, armed, chat, acts, smPc, smTarget,
                   cbPc, need, entryOver, lastWait>>
    /\ GameStill

\* the controls of the ability appear on the page, or disappear
EnvArmed ==
    /\ Pending
    /\ armed' = ~armed
    /\ UNCHANGED <<roster, info, gPc, label, over, voting, timer, chat, acts, smPc,
                   smTarget, cbPc, need, entryOver, lastWait>>
    /\ GameStill

EnvVoteStep == \E i \in 1..Len(roster) : EnvVote(i)

GameNext ==
    \/ GameStart
    \/ DaySleepEnd
    \/ DayWaitVoteEnd
    \/ DayAbility
    \/ ShooterWaitEnd
    \/ ShooterShoot
    \/ ShooterRetry
    \/ WolfWait25End
    \/ WolfWait5End
    \/ WaitVotingEnd
    \/ TagWait25End
    \/ TagWait5End
    \/ SendWake
    \/ CallbackFire
    \/ EnvOver
    \/ EnvVoteStep
    \/ EnvNight
    \/ EnvArmed

\* the rosters of the game specification: a first partner candidate, the
\* operating player, a second partner candidate and an outsider
PartnerIcons ==
    { <<"villager.png">>, <<"wolf.png", Sticker>>, <<"priest.png", Sticker>>,
      <<"villager.png", Sticker>>, <<Sticker>> }

SecondIcons == { <<"villager.png">>, <<"wolf.png", Sticker>>, <<"priest.png", Sticker>> }

MyIcons ==
    { <<"wolf.png", Sticker>>, <<"junior_werewolf.png", Sticker>>,
      <<"splitwolf.png", Sticker>>, <<"priest.png", Sticker>>,
      <<"gunner.png", Sticker>>, <<"villager.png", Sticker>>, <<"wolf.png">> }

OutsiderIcons ==
    { <<"villager.png">>, <<"junior_werewolf.png", "vote_werewolves_voter.png">> }

\* the rows of a game; with seat 3 gone, the rows after it carry seats 4 and 5
GameRosters ==
    { <<Row("1", FALSE, a), Row("2", TRUE, m), Row(Seats[3 + g], FALSE, b),
        Row(Seats[4 + g], FALSE, o)>> :
        a \in PartnerIcons, m \in MyIcons, b \in SecondIcons, o \in OutsiderIcons,
        g \in {0, 1} }

\* chat transcripts: each message is the sequence of its words
ChatLogs ==
    { <<>>,
      << <<"vote", "2">> >>,
      << <<"02">> >>,
      << <<"3", "and", "1">>, <<"4">> >>,
      << <<"123">>, <<"7">>, <<"2nd">> >> }

GameInit ==
    /\ LoopIdle
    /\ WaitIdle
    /\ ClickIdle
    /\ RunIdle
    /\ RoleIdle
    /\ HelperIdle
    /\ ObsIdle
    /\ roster \in GameRosters
    /\ info = NoInfo
    /\ gPc = "idle"
    /\ label \in {"Discussion", "", Null}
    /\ over \in OverTexts
    /\ voting = FALSE
    /\ timer = "40s"
    /\ armed \in BOOLEAN
    /\ chat \in (IF playerInfo(roster).role \in WOLF_ROLES THEN ChatLogs ELSE {<<>>})
    /\ acts = {}
    /\ smPc = "none"
    /\ smTarget = 0
    /\ cbPc = "none"
    /\ need = 0
    /\ entryOver = {}
    /\ lastWait = "-"

SpecGame == GameInit /\ [][GameNext]_vars

(***************************************************************************)
(* SpecClassify: determineGameState applied to every combination of the    *)
(* text fragments it looks for.                                            *)
(***************************************************************************)
\* the fragments determineGameState searches document.body.innerText for
Fragments ==
    {"Continue", "Welcome to the werewolves chat.", "Voting", "SELECT A ROLE",
     "Team: You belong to", "CREATE GAME", "CUSTOM GAME", "INVENTORY", "START GAME",
     "INVITE"}

\* every page over the fragments; rendered text is also in textContent
AllPages ==
    {Pg(inner, tc, FALSE) : inner \in SUBSET Fragments, tc \in SUBSET {"Continue", "Victory"}}
        \ {q \in [inner : SUBSET Fragments, tc : SUBSET {"Continue", "Victory"},
                    more : {FALSE}] : "Continue" \in q.inner /\ "Continue" \notin q.tc}

ClassifyInit ==
    /\ \E p \in AllPages : LoopStart(p)
    /\ WaitIdle
    /\ InfoIdle
    /\ GameIdle
    /\ ClickIdle
    /\ RunIdle
    /\ RoleIdle
    /\ HelperIdle
    /\ ObsIdle

\* one call of determineGameState on the page
ClassifyCall ==
    /\ lastCheck.calls = 0
    /\ lastCheck' = [res |-> determineGameState(page), calls |-> 1]
    /\ UNCHANGED <<BOT_RUNNING, ACTIVE_NAME, loopHandle, lobbyEntryTimestamp, chain,
                   now, page, reloadPending, dwellReloads, autoPending, names>>
    /\ LoopFrame

ClassifyNext == ClassifyCall

SpecClassify == ClassifyInit /\ [][ClassifyNext]_vars

(***************************************************************************)
(* SpecClick: the background script.  A request is served by performClick, *)
(* an async function: each action below is the completion of the browser   *)
(* call the request awaits together with the synchronous run that follows  *)
(* it, up to the next await.  pc of a request:                             *)
(*   idle     no request in the slot                                       *)
(*   query    awaiting chrome.tabs.query                                   *)
(*   detach   awaiting chrome.debugger.detach(victim)                      *)
(*   attach   awaiting chrome.debugger.attach({tabId: tab})                *)
(*   move, press, release   awaiting the sendCommand of that event, sent   *)
(*            to target (attachedTarget as it was when the call was made)  *)
(*   done     the response was sent                                        *)
(* A browser call may fail for reasons of its own (the tab was closed):    *)
(* attach and sendCommand have an outcome ok that the browser decides.     *)
(***************************************************************************)
Reqs == 1..MaxReqs

Tabs == {1, 2}

\* the {x, y, button} of the performClick messages
ClickParams ==
    { [x |-> 10, y |-> 20, button |-> Undefined], [x |-> 30, y |-> 40, button |-> "right"] }

ClickStill ==
    /\ UNCHANGED <<BOT_RUNNING, ACTIVE_NAME, loopHandle, lobbyEntryTimestamp, chain, page,
                   reloadPending, dwellReloads, lastCheck, autoPending, names, now>>
    /\ UNCHANGED <<waitVars, infoVars, gameVars, runVars, roleVars, obsVars, helperVars>>

\* the listener's then branch: sendResponse({ok: true})
RespondOk(q) ==
    [q EXCEPT !.pc = "done", !.resp = Append(@, "ok"), !.tab = 0, !.victim = 0,
              !.target = 0]

\* the listener's catch branch: sendResponse({ok: false, error})
RespondFail(q) ==
    [q EXCEPT !.pc = "done", !.resp = Append(@, "fail"), !.tab = 0, !.victim = 0,
              !.target = 0]

\* the Input.dispatchMouseEvent parameters of an event of request q
MouseEvent(q, type) ==
    [type |-> type, x |-> q.x, y |-> q.y,
     button |-> IF q.button = Undefined THEN "left" ELSE q.button,
     clickCount |-> IF type = "mouseMoved" THEN 0 ELSE 1]

\* a click sequence that goes from the move straight to the release
NextTypeNoPress(type) == "mouseReleased"

\* the event that follows an event of the click sequence
NextType(type) == IF type = "mouseMoved" THEN "mousePressed" ELSE "mouseReleased"

\* the pc of the request that awaits the dispatch of an event
PcOf(type) ==
    CASE type = "mouseMoved" -> "move"
      [] type = "mousePressed" -> "press"
      [] OTHER -> "release"

\* a response was sent and the sender has not taken it yet; the model lets
\* the sender take it before anything else happens
Answered == \E r \in Reqs : req[r].pc = "done"

\* the onMessage listener receives a performClick message
ClickRequest(r, m) ==
    /\ ~Answered
    /\ req[r].pc = "idle"
    /\ \A q \in Reqs : q < r => req[q].pc # "idle"
    /\ req' = [req EXCEPT ![r] =
                  [NoReq EXCEPT !.pc = "query", !.x = m.x, !.y = m.y,
                                !.button = m.button]]
    /\ UNCHANGED <<attachedTarget, dbg, gameTab>>
    /\ ClickStill

\* chrome.tabs.query completes; ensureDebuggerAttached runs to its first await
QueryDone(r) ==
    /\ ~Answered
    /\ req[r].pc = "query"
    /\ IF gameTab = 0
       THEN req' = [req EXCEPT ![r] = RespondFail(@)]
       ELSE IF attachedTarget = gameTab
       THEN req' = [req EXCEPT ![r].tab = gameTab, ![r].pc = "move",
                               ![r].target = attachedTarget]
       ELSE IF attachedTarget # 0
       THEN req' = [req EXCEPT ![r].tab = gameTab, ![r].pc = "detach",
                               ![r].victim = attachedTarget]
       ELSE req' = [req EXCEPT ![r].tab = gameTab, ![r].pc = "attach"]
    /\ UNCHANGED <<attachedTarget, dbg, gameTab>>
    /\ ClickStill

\* chrome.debugger.detach settles (a failure is only logged); then
\* attachedTarget = null and the attach call
DetachDone(r) ==
    /\ ~Answered
    /\ req[r].pc = "detach"
    /\ dbg' = dbg \ {req[r].victim}
    /\ attachedTarget' = 0
    /\ req' = [req EXCEPT ![r].pc = "attach", ![r].victim = 0]
    /\ UNCHANGED gameTab
    /\ ClickStill

\* the catch block of ensureDebuggerAttached: attachedTarget = null
AttachFailed == 0

\* chrome.debugger.attach settles: the browser refuses a tab that has a
\* debugger attached already
AttachDone(r, ok) ==
    /\ ~Answered
    /\ req[r].pc = "attach"
    /\ IF ok /\ req[r].tab \notin dbg
       THEN /\ dbg' = dbg \cup {req[r].tab}
            /\ attachedTarget' = req[r].tab
            /\ req' = [req EXCEPT ![r].pc = "move", ![r].target = req[r].tab]
       ELSE /\ dbg' = dbg
            /\ attachedTarget' = AttachFailed
            /\ req' = [req EXCEPT ![r] = RespondFail(@)]
    /\ UNCHANGED gameTab
    /\ ClickStill

\* a sendCommand settles: the event was dispatched if the target is a tab
\* the debugger is attached to; then the next sendCommand, or the response
DispatchDone(r, type, ok) ==
    /\ ~Answered
    /\ req[r].pc = PcOf(type)
    /\ IF ok /\ req[r].target # 0 /\ req[r].target \in dbg
       THEN req' = [req EXCEPT ![r] =
                      IF type = "mouseReleased"
                      THEN RespondOk([@ EXCEPT !.events = Append(@, MouseEvent(req[r], type))])
                      ELSE [@ EXCEPT !.events = Append(@, MouseEvent(req[r], type)),
                                     !.pc = PcOf(NextType(type)),
                                     !.target = attachedTarget]]
       ELSE req' = [req EXCEPT ![r] = RespondFail(@)]
    /\ UNCHANGED <<attachedTarget, dbg, gameTab>>
    /\ ClickStill

\* the sender has its response; the slot is free for the next request
Forget(r) ==
    /\ req[r].pc = "done"
    /\ req' = [req EXCEPT ![r] = NoReq]
    /\ UNCHANGED <<attachedTarget, dbg, gameTab>>
    /\ ClickStill

Quiet == \A r \in Reqs : req[r].pc = "idle"

\* chrome.runtime.onSuspend: the background is idle and is unloaded
OnSuspend ==
    /\ Quiet
    /\ attachedTarget # 0
    /\ dbg' = dbg \ {attachedTarget}
    /\ attachedTarget' = 0
    /\ UNCHANGED <<gameTab, req>>
    /\ ClickStill

\* a game tab is opened that chrome.tabs.query finds first from now on
TabChange ==
    /\ ~Answered
    /\ gameTab + 1 \in Tabs
    /\ gameTab' = gameTab + 1
    /\ UNCHANGED <<attachedTarget, dbg, req>>
    /\ ClickStill

ClickRequestStep == \E r \in Reqs, m \in ClickParams : ClickRequest(r, m)
QueryDoneStep == \E r \in Reqs : QueryDone(r)
DetachDoneStep == \E r \in Reqs : DetachDone(r)
AttachDoneStep == \E r \in Reqs, ok \in BOOLEAN : AttachDone(r, ok)
DispatchDoneStep ==
    \E r \in Reqs, ok \in BOOLEAN, type \in {"mouseMoved", "mousePressed", "mouseReleased"} :
        DispatchDone(r, type, ok)
ForgetStep == \E r \in Reqs : Forget(r)

ClickInit ==
    /\ LoopIdle
    /\ WaitIdle
    /\ InfoIdle
    /\ GameIdle
    /\ RunIdle
    /\ RoleIdle
    /\ HelperIdle
    /\ ObsIdle
    /\ attachedTarget = 0
    /\ dbg = {}
    /\ gameTab \in {0, 1}
    /\ req = [r \in Reqs |-> NoReq]

ClickNext ==
    \/ ClickRequestStep
    \/ QueryDoneStep
    \/ DetachDoneStep
    \/ AttachDoneStep
    \/ DispatchDoneStep
    \/ ForgetStep
    \/ OnSuspend
    \/ TabChange

SpecClick == ClickInit /\ [][ClickNext]_vars

Init ==
    LoopInit /\ WaitIdle /\ InfoIdle /\ GameIdle /\ ClickIdle /\ RunIdle /\ RoleIdle
        /\ HelperIdle /\ ObsIdle

Next ==
    \/ ToggleOn
    \/ ToggleOff
    \/ AutoStartStep
    \/ TimerFireStep
    \/ ClassifyStep
    \/ TrackStep
    \/ SettleStep
    \/ PageChange
    \/ Tick
    \/ PageReplaced

Spec == Init /\ [][Next]_vars

(***************************************************************************)
(* SpecToggle: the loop controller under toggle messages that carry one of *)
(* two display names, on a page that does not change.                      *)
(***************************************************************************)
ToggleNames == {"Alex", "Bob"}

ToggleInit ==
    /\ BOT_RUNNING = FALSE
    /\ ACTIVE_NAME = ""
    /\ loopHandle = NoHandle
    /\ lobbyEntryTimestamp = NullTime
    /\ chain = [c \in Chains |-> FreeChain]
    /\ now = 0
    /\ page \in {Pg({}, {}, FALSE), Pg({"INVENTORY"}, {}, FALSE),
                 Pg({"START GAME", "INVITE"}, {}, FALSE)}
    /\ reloadPending = FALSE
    /\ dwellReloads = 0
    /\ lastCheck = NoCheck
    /\ autoPending = TRUE
    /\ names = ToggleNames
    /\ WaitIdle
    /\ InfoIdle
    /\ GameIdle
    /\ ClickIdle
    /\ RunIdle
    /\ RoleIdle
    /\ HelperIdle
    /\ ObsIdle

ToggleNext ==
    \/ ToggleOn
    \/ ToggleOff
    \/ AutoStartStep
    \/ TimerFireStep
    \/ ClassifyStep
    \/ TrackStep
    \/ SettleStep

SpecToggle == ToggleInit /\ [][ToggleNext]_vars

(***************************************************************************)
(* SpecRole: getPlayerRole applied to role image filenames, as inGame      *)
(* applies it to the role images of the player and of the two partners.    *)
(***************************************************************************)
RoleFiles ==
    {Undefined, Null, "", "juniorwerewolf.png", "junior_werewolf.png", "split_wolf.png",
     "splitwolf.png", "wolf.png", "priest.png", "vigilante.png", "gunner.png",
     "villager.png", "priest_gunner.png", "junior_werewolf_selection_marker.png"}

RoleInit ==
    /\ LoopIdle
    /\ WaitIdle
    /\ InfoIdle
    /\ GameIdle
    /\ ClickIdle
    /\ RunIdle
    /\ HelperIdle
    /\ ObsIdle
    /\ imgs \in [1..MaxImgs -> RoleFiles]
    /\ roles = <<>>

\* the next call: getPlayerRole(img)
RoleCall ==
    /\ Len(roles) < Len(imgs)
    /\ roles' = Append(roles, getPlayerRole(imgs[Len(roles) + 1]))
    /\ UNCHANGED imgs
    /\ UNCHANGED <<loopVars, waitVars, infoVars, gameVars, clickVars, runVars, helperVars, obsVars>>

RoleNext == RoleCall

SpecRole == RoleInit /\ [][RoleNext]_vars

(***************************************************************************)
(* SpecHelper: the click helpers on the [tabindex="0"] elements of the     *)
(* document or container they search.  An element matches the image or     *)
(* text the helper looks for or not, is disabled or not, has a depth, and  *)
(* is shown, hidden with its box kept (visibility: hidden), or without a   *)
(* box (display: none).                                                    *)
(***************************************************************************)
TabElements ==
    [match : BOOLEAN, disabled : BOOLEAN, depth : {1, 2},
     style : {"shown", "hidden", "none"}]

\* isVisible(element)
isVisible(el) == el.style = "shown"

\* click: rect.width === 0 || rect.height === 0
NoBox(el) == el.style = "none"

\* the first of the deepest candidates
Deepest(S) == FirstOf({i \in S : \A j \in S : dom[j].depth <= dom[i].depth})

\* the first of the least nested candidates
Outermost(S) == FirstOf({i \in S : \A j \in S : dom[i].depth <= dom[j].depth})

\* click(element): the message is sent unless the element has no box
click(helper, i) ==
    sent' = IF i = 0 \/ NoBox(dom[i]) THEN sent
            ELSE Append(sent, [helper |-> helper, el |-> i])

HelperStill ==
    /\ UNCHANGED dom
    /\ UNCHANGED <<loopVars, waitVars, infoVars, gameVars, clickVars, runVars, roleVars, obsVars>>

\* the helper of this run was called
Called == sent # <<>>

clickElementByImage ==
    /\ ~Called
    /\ click("clickElementByImage",
             FirstOf({i \in DOMAIN dom : dom[i].match /\ ~dom[i].disabled}))
    /\ HelperStill

\* the clickable parent of the first matching image, if it is not disabled
clickElementByImageInElement ==
    /\ ~Called
    /\ LET i == FirstOf({j \in DOMAIN dom : dom[j].match})
       IN click("clickElementByImageInElement",
                IF i # 0 /\ ~dom[i].disabled THEN i ELSE 0)
    /\ HelperStill

clickInnermostElementByImage ==
    /\ ~Called
    /\ click("clickInnermostElementByImage",
             Deepest({i \in DOMAIN dom : dom[i].match /\ ~dom[i].disabled}))
    /\ HelperStill

clickInnermostElementByText ==
    /\ ~Called
    /\ click("clickInnermostElementByText",
             Deepest({i \in DOMAIN dom : dom[i].match /\ ~dom[i].disabled}))
    /\ HelperStill

clickOutermostElement ==
    /\ ~Called
    /\ click("clickOutermostElement", Outermost({i \in DOMAIN dom : ~dom[i].disabled}))
    /\ HelperStill

HelperInit ==
    /\ LoopIdle
    /\ WaitIdle
    /\ InfoIdle
    /\ GameIdle
    /\ ClickIdle
    /\ RunIdle
    /\ RoleIdle
    /\ ObsIdle
    /\ dom \in UNION {[1..n -> TabElements] : n \in 1..MaxElems}
    /\ sent = <<>>

HelperNext ==
    \/ clickElementByImage
    \/ clickElementByImageInElement
    \/ clickInnermostElementByImage
    \/ clickInnermostElementByText
    \/ clickOutermostElement

SpecHelper == HelperInit /\ [][HelperNext]_vars

(***************************************************************************)
(* SpecMain: one loop closure whose handlers run await by await.  A        *)
(* handler is a graph of awaits: waits, sleeps, awaited clicks, the        *)
(* synchronous branches between them, and the retry loops.  The page       *)
(* decides what a wait sees and which branch is taken.                     *)
(***************************************************************************)
Wait(found, null, cancel, loop) ==
    [kind |-> "wait", a |-> found, b |-> null, alt |-> {}, cancel |-> cancel,
     n |-> 0, loop |-> loop]

Sleep(next, loop) ==
    [kind |-> "sleep", a |-> next, b |-> next, alt |-> {}, cancel |-> FALSE,
     n |-> 0, loop |-> loop]

\* synchronous code whose way depends on the page
Branch(alt, loop) ==
    [kind |-> "branch", a |-> "", b |-> "", alt |-> alt, cancel |-> FALSE,
     n |-> 0, loop |-> loop]

\* await click(element): resolves with the response, or rejects
AwaitClick(next) ==
    [kind |-> "click", a |-> next, b |-> "throw", alt |-> {}, cancel |-> FALSE,
     n |-> 0, loop |-> ""]

\* the sleep that ends a round, and the test of the round counter
Retry(again, done, n, loop) ==
    [kind |-> "retry", a |-> again, b |-> done, alt |-> {}, cancel |-> FALSE,
     n |-> n, loop |-> loop]

\* a return without the reload
ReloadNone(next) ==
    [kind |-> "sleep", a |-> next, b |-> next, alt |-> {}, cancel |-> FALSE,
     n |-> 0, loop |-> ""]

\* location.reload() and the return that follows it
Reload(next) ==
    [kind |-> "reload", a |-> next, b |-> next, alt |-> {}, cancel |-> FALSE,
     n |-> 0, loop |-> ""]

End ==
    [kind |-> "end", a |-> "", b |-> "", alt |-> {}, cancel |-> FALSE, n |-> 0,
     loop |-> ""]

\* a click-and-verify loop of one round more
VerifyRoundsSix == 5 + 1

\* rounds of the click-and-verify loop of robustClickAndVerify
VerifyRounds == 5

\* the handlers of main, await by await
Flow(pc) ==
    CASE pc = "inGame" -> Branch({"inGameDay", "inGameNight", "return", "throw"}, "")
      \* inGameDay
      [] pc = "inGameDay" ->
            Branch({"return", "throw", "day_sent", "day_marker", "shooterAction"}, "")
      [] pc = "day_sent" -> Sleep("return", "")
      [] pc = "day_marker" -> Wait("day_trigger", "day_trigger", TRUE, "")
      [] pc = "day_trigger" -> Branch({"return", "day_ability"}, "")
      [] pc = "day_ability" -> Sleep("return", "")
      \* shooterAction
      [] pc = "shooterAction" -> Wait("sh_over", "sh_over", TRUE, "sh")
      [] pc = "sh_over" -> Branch({"return", "sh_bullet"}, "sh")
      [] pc = "sh_bullet" -> Sleep("sh_target", "sh")
      [] pc = "sh_target" -> Branch({"return", "sh_again"}, "sh")
      [] pc = "sh_again" -> Retry("shooterAction", "return", MaxVoteMarkers - 1, "sh")
      \* inGameNight
      [] pc = "inGameNight" -> Branch({"return", "wolf_25s", "tag"}, "")
      [] pc = "wolf_25s" -> Wait("wolf_send", "wolf_send", TRUE, "")
      [] pc = "wolf_send" -> Branch({"return", "wolf_5s"}, "")
      [] pc = "wolf_5s" -> Wait("wolf_reclick", "wolf_reclick", TRUE, "")
      [] pc = "wolf_reclick" -> Branch({"return", "wolf_voting"}, "")
      [] pc = "wolf_voting" -> Wait("return", "return", TRUE, "")
      [] pc = "tag" -> Branch({"return", "tag_25s"}, "")
      [] pc = "tag_25s" -> Wait("tag_send", "tag_send", TRUE, "")
      [] pc = "tag_send" -> Branch({"return", "tag_5s"}, "")
      [] pc = "tag_5s" -> Wait("tag_mark", "tag_mark", TRUE, "")
      [] pc = "tag_mark" -> Branch({"return", "tag_voting"}, "")
      [] pc = "tag_voting" -> Wait("return", "return", TRUE, "")
      \* playAgain: robustClickAndVerify('Continue'), then ('Play again')
      [] pc = "playAgain" -> Branch({"return", "c_button"}, "")
      [] pc = "c_button" -> Wait("c_delay", "p_button", TRUE, "")
      [] pc = "c_delay" -> Sleep("c_fresh", "")
      [] pc = "c_fresh" -> Branch({"p_button", "c_gone"}, "c")
      [] pc = "c_gone" -> Wait("p_button", "c_again", FALSE, "c")
      [] pc = "c_again" -> Retry("c_fresh", "p_button", VerifyRounds, "c")
      [] pc = "p_button" -> Wait("p_delay", "p_failed", TRUE, "")
      [] pc = "p_delay" -> Sleep("p_fresh", "")
      [] pc = "p_fresh" -> Branch({"ok_button", "p_gone"}, "p")
      [] pc = "p_gone" -> Wait("ok_button", "p_again", FALSE, "p")
      [] pc = "p_again" -> Retry("p_fresh", "p_failed", VerifyRounds, "p")
      [] pc = "p_failed" -> Reload("return")
      [] pc = "ok_button" -> Wait("return", "return", FALSE, "")
      \* handleHomeScreen
      [] pc = "handleHomeScreen" -> Wait("home_join", "home_play", FALSE, "")
      [] pc = "home_join" -> Branch({"return", "home_joined"}, "")
      [] pc = "home_joined" -> Sleep("return", "")
      [] pc = "home_play" -> Branch({"return", "home_played"}, "")
      [] pc = "home_played" -> Sleep("return", "")
      \* handleGameScreen
      [] pc = "handleGameScreen" -> Branch({"return", "gs_clicked"}, "")
      [] pc = "gs_clicked" -> Sleep("gs_popup", "")
      [] pc = "gs_popup" -> Wait("gs_cancel", "return", FALSE, "")
      [] pc = "gs_cancel" -> Branch({"return", "gs_cancelled"}, "")
      [] pc = "gs_cancelled" -> Sleep("return", "")
      \* customLobby
      [] pc = "customLobby" -> Branch({"return", "cl_ok", "cl_lobby"}, "")
      [] pc = "cl_ok" -> AwaitClick("cl_ok_closed")
      [] pc = "cl_ok_closed" -> Sleep("return", "")
      [] pc = "cl_lobby" -> AwaitClick("cl_join_button")
      [] pc = "cl_join_button" -> Wait("cl_popup", "return", FALSE, "")
      [] pc = "cl_popup" -> Branch({"return", "cl_join", "cl_close"}, "")
      [] pc = "cl_join" -> AwaitClick("cl_joined")
      [] pc = "cl_joined" -> Wait("return", "return", FALSE, "")
      [] pc = "cl_close" -> AwaitClick("cl_closed")
      [] pc = "cl_closed" -> Sleep("return", "")
      [] OTHER -> End

\* the clicks playAgain issues in the run that takes it from pc, where its
\* wait saw cond, to t: click(freshButton) of robustClickAndVerify and
\* click(okButton).  sent holds the texts of the buttons clicked by the
\* invocation in progress.
playAgainClicks(pc, cond, t) ==
    IF pc = "c_fresh" /\ t = "c_gone" THEN <<"Continue">>
    ELSE IF pc = "p_fresh" /\ t = "p_gone" THEN <<"Play again">>
    ELSE IF pc = "ok_button" /\ cond = "found" /\ t = "return" THEN <<"OK">>
    ELSE <<>>

\* the switch of main: the handler of a classification
Entry(st) ==
    CASE st = "IN_GAME" -> "inGame"
      [] st = "POST_GAME" -> "playAgain"
      [] st = "CUSTOM" -> "customLobby"
      [] st = "HOME_SCREEN" -> "handleHomeScreen"
      [] OTHER -> "handleGameScreen"

\* a wait whose timeout never comes
ExpiredNever(left) == FALSE

\* waitForCondition: Date.now() - startTime >= timeout
Expired(left) == left = 0

\* what a wait can see on the page: its condition, a cancel text, or neither
Conds(f) == IF f.cancel THEN {"none", "found", "cancel"} ELSE {"none", "found"}

\* the handler goes on to t
Goto(t) ==
    /\ hPc' = t
    /\ hTry' = IF Flow(t).loop # "" /\ Flow(t).loop = Flow(hPc).loop THEN hTry ELSE 0
    /\ IF Flow(t).kind = "wait"
       THEN hLeft' = MaxPolls /\ hCond' \in Conds(Flow(t))
       ELSE hLeft' = 0 /\ hCond' = "none"

RunStill ==
    /\ UNCHANGED <<BOT_RUNNING, ACTIVE_NAME, loopHandle, lobbyEntryTimestamp, chain,
                   now, page, dwellReloads, lastCheck, autoPending, names>>
    /\ UNCHANGED <<waitVars, infoVars, gameVars, clickVars, roleVars, obsVars, dom>>

\* main calls the handler of the classification
Enter(c) ==
    /\ ~SyncBusy
    /\ chain[c].pc = "handler"
    /\ hPc = "-"
    /\ Goto(Entry(chain[c].st))
    /\ UNCHANGED <<reloadPending, sent>>
    /\ RunStill

\* the handler is resumed: a check of its wait, the end of its sleep, the
\* response to its click; it runs up to its next await
HandlerStep(c) ==
    /\ ~SyncBusy
    /\ chain[c].pc = "handler"
    /\ Flow(hPc).kind # "end"
    /\ LET f == Flow(hPc) IN
       CASE f.kind = "wait" ->
              /\ IF hCond = "found" THEN Goto(f.a)
                 ELSE IF hCond = "cancel" \/ Expired(hLeft) THEN Goto(f.b)
                 ELSE /\ hLeft' = (IF hLeft > 0 THEN hLeft - 1 ELSE 0)
                      /\ UNCHANGED <<hPc, hTry, hCond>>
              /\ UNCHANGED reloadPending
         [] f.kind = "sleep" -> Goto(f.a) /\ UNCHANGED reloadPending
         [] f.kind = "branch" -> (\E t \in f.alt : Goto(t)) /\ UNCHANGED reloadPending
         [] f.kind = "click" -> (\E t \in {f.a, f.b} : Goto(t)) /\ UNCHANGED reloadPending
         [] f.kind = "retry" ->
              /\ IF hTry + 1 < f.n
                 THEN /\ hPc' = f.a
                      /\ hTry' = hTry + 1
                      /\ hLeft' = 0 /\ hCond' = "none"
                 ELSE Goto(f.b)
              /\ UNCHANGED reloadPending
         [] OTHER -> Goto(f.a) /\ reloadPending' = TRUE
    /\ sent' = sent \o playAgainClicks(hPc, hCond, hPc')
    /\ RunStill

\* the handler returned or threw: main settles, then the catch and finally
\* blocks of loop
HandlerEnd(c) ==
    /\ ~SyncBusy
    /\ chain[c].pc = "handler"
    /\ hPc \in {"return", "throw"}
    /\ Finally(c, [chain EXCEPT ![c].err = (hPc = "throw")])
    /\ hPc' = "-" /\ hLeft' = 0 /\ hTry' = 0 /\ hCond' = "none"
    /\ sent' = <<>>
    /\ UNCHANGED <<BOT_RUNNING, ACTIVE_NAME, lobbyEntryTimestamp, now, page,
                   reloadPending, dwellReloads, lastCheck, autoPending, names>>
    /\ UNCHANGED <<waitVars, infoVars, gameVars, clickVars, roleVars, obsVars, dom>>

\* the page changes what the handler's wait sees
CondChange ==
    /\ ~SyncBusy
    /\ Flow(hPc).kind = "wait"
    /\ hCond' \in Conds(Flow(hPc)) \ {hCond}
    /\ UNCHANGED <<hPc, hLeft, hTry, reloadPending, sent>>
    /\ RunStill

\* a start message that finds the closure of the last run ended
MainToggleOn == chain[1].pc = "free" /\ ToggleOn

\* the page changes between two handlers; what it does while a handler runs
\* is in hCond and in the branches the handler takes
MainPageChange == (\A c \in Chains : chain[c].pc # "handler") /\ PageChange

EnterStep == \E c \in Chains : Enter(c)
HandlerStepAny == \E c \in Chains : HandlerStep(c)
HandlerEndStep == \E c \in Chains : HandlerEnd(c)

MainInit == Init

MainNext ==
    \/ MainToggleOn
    \/ ToggleOff
    \/ AutoStartStep
    \/ TimerFireStep
    \/ ClassifyStep
    \/ TrackStep
    \/ EnterStep
    \/ HandlerStepAny
    \/ HandlerEndStep
    \/ CondChange
    \/ MainPageChange
    \/ PageReplaced

\* the steps of the one closure; at most one of them is enabled at a time
MainStep ==
    \/ TimerFireStep
    \/ ClassifyStep
    \/ TrackStep
    \/ EnterStep
    \/ HandlerStepAny
    \/ HandlerEndStep

\* timers fire, the background answers, and code that can run does run
MainFair == WF_vars(MainStep)

SpecMain == MainInit /\ [][MainNext]_vars /\ MainFair

(***************************************************************************)
(* Claims about the loop controller (checked under Spec).                  *)
(***************************************************************************)

\* C1: under every sequence of startBot/stopBot requests at most one
\* iteration of main is in flight and at most one loop chain exists (an
\* iteration in flight or a pending timer).
C1_NoOverlap ==
    /\ Cardinality({c \in Chains : InFlight(c)}) <= 1
    /\ Cardinality({c \in Chains : chain[c].pc # "free"}) <= 1

\* C9: when the lobby dwell time exceeds the ceiling, exactly one reload is
\* issued for that crossing: the cycles that still run on the same page
\* issue no further reload.
C9_OneReloadPerCrossing == dwellReloads <= 1

C12_ErrorKeepsLoop ==
    [][\A c \in Chains :
          (chain[c].pc \in {"classified", "handler"}
             /\ chain'[c].pc \notin {"classified", "handler"}
             /\ BOT_RUNNING /\ ~autoPending')
          => (chain'[c].pc = "timer" /\ loopHandle' = c)]_vars

\* an iteration that ended with an error and was followed by the timer
C12_Witness ==
    \E c \in Chains : chain[c].pc = "timer" /\ chain[c].err /\ loopHandle = c /\ BOT_RUNNING

\* C13: after stopBot no new iteration of main begins until startBot is
\* called again: while the running flag is false no timer of a loop closure
\* fires into a new iteration.
C13_NoIterationWhileStopped ==
    [][\A c \in Chains :
          (chain[c].pc = "timer" /\ chain'[c].pc = "begin") => BOT_RUNNING]_vars

\* C14: handling a toggleBot message {enabled, name} leaves the running flag
\* equal to enabled, and when enabled is true the loop operates with the
\* name of the message from then on: ACTIVE_NAME and every loop closure
\* hold that name, also when the bot was running under another name.
C14_ToggleSetsFlagAndName ==
    [][/\ ToggleBot(FALSE, "") => ~BOT_RUNNING'
       /\ \A n \in names :
             ToggleBot(TRUE, n) =>
                /\ BOT_RUNNING'
                /\ ACTIVE_NAME' = n
                /\ \A c \in Chains : chain'[c].pc # "free" => chain'[c].name = n]_vars

(***************************************************************************)
(* Claims about the waits of the role handlers *)

\* C19: when the wait for the vote marker (day) or for the 25s prompt
\* (night) ends with null because its timeout elapsed, the handler issues no
\* click and sends no message in the code that follows the wait.
C19_TimeoutSkipsAction ==
    [][(/\ gPc \in {"d_waitVote", "n_wait25", "t_wait25"}
        /\ gPc' # gPc
        /\ lastWait' = "timeout")
          => (acts' = acts /\ smPc' = smPc)]_vars

(* Claims about the click helpers *)

\* C20: every click message a click helper sends is for an element that
\* passes isVisible.
C20_ClicksOnlyVisible ==
    \A k \in 1..Len(sent) : isVisible(dom[sent[k].el])

(* Claims about getPlayerRole *)

\* the keys in the order the table lists them
TableOrder == <<"juniorwerewolf", "junior_werewolf", "split_wolf", "splitwolf", "wolf",
                "priest", "vigilante", "gunner">>

\* C18: getPlayerRole returns Unknown for an empty or absent filename, Other
\* for a filename that contains no key, and otherwise the role of the first
\* key in table order that the filename contains; a filename that contains
\* junior_werewolf or splitwolf is never mapped to Wolf.
C18_FirstKeyWins ==
    \A i \in 1..Len(roles) :
        LET f == imgs[i]
            r == roles[i]
        IN IF f \in {Undefined, Null, ""}
           THEN r = "Unknown"
           ELSE /\ (\A k \in 1..Len(TableOrder) : ~Includes(f, TableOrder[k]))
                      => r = "Other"
                /\ \A k \in 1..Len(TableOrder) :
                      (/\ Includes(f, TableOrder[k])
                       /\ \A j \in 1..(k - 1) : ~Includes(f, TableOrder[j]))
                          => r = RoleOfKey(TableOrder[k])
                /\ (Includes(f, "junior_werewolf") \/ Includes(f, "splitwolf"))
                      => r # "Wolf"

C18_Witness ==
    \E i \in 1..Len(roles) :
        /\ imgs[i] = "junior_werewolf.png"
        /\ Includes(imgs[i], "wolf")
        /\ roles[i] = "Junior Werewolf"

(* Claims about the settling of main *)

\* C17: every iteration of main settles whatever the page does: a handler
\* that main awaits always ends, and while the bot runs a pending iteration
\* always leads to a next classification (or to the bot being stopped or the
\* page being reloaded).
C17_IterationSettles ==
    /\ (\E c \in Chains : chain[c].pc = "handler")
          ~> (\A c \in Chains : chain[c].pc # "handler")
    /\ (BOT_RUNNING /\ \E c \in Chains : chain[c].pc \in {"handler", "timer"})
          ~> (~BOT_RUNNING \/ \E c \in Chains : chain[c].pc = "classified")

\* the last recursion of shooterAction at a wait whose timeout is up, with
\* no marker and no cancel text on the page
C17_Witness ==
    /\ \E c \in Chains : chain[c].pc = "handler"
    /\ hPc = "shooterAction" /\ hTry = MaxVoteMarkers - 2
    /\ hLeft = 0 /\ hCond = "none"

\* C31: whenever the bot is running and the lobby page keeps showing a MORE
\* PLAYERS REQUIRED control, the bot eventually issues a page reload, for
\* every lobby page content that shows that control.
C31_MorePlayersLeadsToReload ==
    (BOT_RUNNING /\ page.more) ~> (reloadPending \/ ~page.more \/ ~BOT_RUNNING)

\* C32: after an iteration of main, lobbyEntryTimestamp is null if the
\* classification was not LOBBY; it is set on the first of consecutive LOBBY
\* iterations and left unchanged on the following ones; the stuck-lobby
\* reload is issued in exactly the LOBBY iterations where the time since the
\* timestamp is strictly greater than 2 minutes (120000 ms), and in such an
\* iteration the lobby handler is not run.
C32_LobbyDwell ==
    [][\A c \in Chains : Track(c) =>
          LET s == chain[c].st
              late == /\ s = "LOBBY"
                      /\ lobbyEntryTimestamp # NullTime
                      /\ now - lobbyEntryTimestamp > 120000
          IN /\ s # "LOBBY" => lobbyEntryTimestamp' = NullTime
             /\ (s = "LOBBY" /\ lobbyEntryTimestamp = NullTime) =>
                    lobbyEntryTimestamp' = now
             /\ (s = "LOBBY" /\ lobbyEntryTimestamp # NullTime) =>
                    lobbyEntryTimestamp' = lobbyEntryTimestamp
             /\ late => reloadPending'
             /\ late => dwellReloads' = Bump(dwellReloads)
             /\ late => (chain'[c].pc # "handler" /\ sent' = sent)
             /\ ~late => dwellReloads' <= dwellReloads
             /\ (~late /\ ~(s = "LOBBY" /\ page.more)) =>
                    reloadPending' = reloadPending
             /\ (~late /\ s = "LOBBY" /\ page.more) => reloadPending']_vars

\* a LOBBY iteration issued the stuck-lobby reload more than two minutes
\* after the timestamp was set
C32_Witness ==
    /\ dwellReloads = 1
    /\ reloadPending
    /\ lobbyEntryTimestamp # NullTime
    /\ now - lobbyEntryTimestamp > 120000
    /\ lastCheck.res = "LOBBY"

(* Claims about the dispatch of main *)

\* the handler that belongs to a state
HandlerOf(st) ==
    CASE st = "LOBBY" -> "handleLobbyState"
      [] st = "ROLE_SELECTION" -> "handleRoleSelectionState"
      [] st = "IN_GAME" -> "inGame"
      [] st = "POST_GAME" -> "playAgain"
      [] st = "CUSTOM" -> "customLobby"
      [] st = "HOME_SCREEN" -> "handleHomeScreen"
      [] st = "GAME_SCREEN" -> "handleGameScreen"
      [] OTHER -> ""

\* the iteration of chain c found the lobby older than two minutes
LateLobby(c) ==
    /\ chain[c].st = "LOBBY"
    /\ lobbyEntryTimestamp # NullTime
    /\ now - lobbyEntryTimestamp > 120000

\* C35 as stated: each iteration of main runs exactly the one handler that
\* belongs to the state it classified, for each of the seven states other
\* than UNKNOWN.
C35_EveryIterationRunsHandler ==
    \A c \in Chains :
        (chain[c].pc = "classified" /\ chain[c].st # "UNKNOWN") =>
            mainCalls(chain[c].st, LateLobby(c)) = HandlerOf(chain[c].st)

\* C35, amended: each iteration of main runs exactly the one handler that
\* belongs to the state it classified, except a LOBBY iteration that finds
\* the lobby older than two minutes, which runs no handler; for UNKNOWN it
\* runs no handler, issues no click, no chat message and no reload, and
\* leaves the running flag unchanged.
C35_RunsHandlerUnlessStuck ==
    /\ [](\A c \in Chains : chain[c].pc = "classified" =>
             mainCalls(chain[c].st, LateLobby(c)) =
                IF LateLobby(c) THEN "" ELSE HandlerOf(chain[c].st))
    /\ [][\A c \in Chains : Track(c) =>
             /\ chain'[c].pc = "handler" <=>
                   (~LateLobby(c) /\ HandlerOf(chain[c].st) \in SuspendingHandlers)
             /\ chain[c].st = "UNKNOWN" =>
                   /\ reloadPending' = reloadPending
                   /\ sent' = sent
                   /\ acts' = acts
                   /\ BOT_RUNNING' = BOT_RUNNING]_vars

\* an iteration that classified UNKNOWN has ended and its timer is pending
C35_Witness ==
    /\ lastCheck.res = "UNKNOWN"
    /\ BOT_RUNNING
    /\ ~reloadPending
    /\ \E c \in Chains : chain[c].pc = "timer" /\ loopHandle = c

\* C37: a click that fails (no matching element, an {ok: false} answer, or
\* an unreachable background) is a no-op for the handlers: it never raises
\* an exception into main, for every handler including customLobby, which
\* awaits its clicks.
C37_FailedClickNoException ==
    [][\A c \in Chains :
          (HandlerStep(c) /\ Flow(hPc).kind = "click") => hPc' # "throw"]_vars

(* Claims about playAgain *)

\* the place of a button in the order of playAgain
ButtonRank(b) == CASE b = "Continue" -> 1 [] b = "Play again" -> 2 [] OTHER -> 3

ClicksOn(b) == Cardinality({i \in 1..Len(sent) : sent[i] = b})

\* C33: within one playAgain invocation the clicks are issued in the order
\* Continue, Play again, OK; Continue and Play again are each clicked at most
\* 5 times; a click is repeated only after a verification wait that still
\* found the button; and no click is issued when playAgain finds 'Waiting
\* for players' on the page.
C33_PlayAgainClickOrder ==
    /\ [](/\ \A i, j \in 1..Len(sent) :
                i < j => ButtonRank(sent[i]) <= ButtonRank(sent[j])
          /\ ClicksOn("Continue") <= 5
          /\ ClicksOn("Play again") <= 5
          /\ ClicksOn("OK") <= 1)
    /\ [][/\ (hPc = "playAgain" /\ hPc' = "return") => sent' = <<>>
          /\ \A b \in {"Continue", "Play again"} :
                (ClicksOn(b) >= 1 /\ sent' = Append(sent, b)) => hTry >= 1]_vars

\* five Continue clicks, then Play again, then the OK of the confirmation
C33_Witness ==
    /\ hPc = "return"
    /\ ClicksOn("Continue") = 5
    /\ ClicksOn("Play again") >= 1
    /\ sent[Len(sent)] = "OK"

PlayAgainPcs ==
    {"playAgain", "c_button", "c_delay", "c_fresh", "c_gone", "c_again", "p_button",
     "p_delay", "p_fresh", "p_gone", "p_again", "p_failed", "ok_button"}

\* the Play again step fails: its button was not found before the timeout,
\* its wait was cancelled, or the button is still there after the fifth click
PlayAgainFails ==
    \/ hPc = "p_button" /\ hCond # "found" /\ (hCond = "cancel" \/ hLeft = 0)
    \/ hPc = "p_again" /\ hTry = 4

\* C34: playAgain issues a page reload exactly when the Play again step
\* returns failure, and then issues no OK click; when the step succeeds it
\* issues no reload; the outcome of the Continue step has no influence.
C34_ReloadIffPlayAgainFails ==
    [][\A c \in Chains : (HandlerStep(c) /\ hPc \in PlayAgainPcs) =>
          /\ (hPc' = "p_failed") <=> PlayAgainFails
          /\ hPc = "p_failed" => (reloadPending' /\ hPc' = "return" /\ sent' = sent)
          /\ hPc # "p_failed" => reloadPending' = reloadPending]_vars

\* the fifth Play again click did not make the button go away: the reload
\* was issued and no OK was clicked
C34_Witness ==
    /\ hPc = "return"
    /\ reloadPending
    /\ ClicksOn("Continue") >= 1
    /\ ClicksOn("Play again") = 5
    /\ ClicksOn("OK") = 0

(* Claims about the background's performClick *)

ClickTypes == <<"mouseMoved", "mousePressed", "mouseReleased">>

\* the number of events a request has dispatched when it is at a pc
DispatchedAt(pc) ==
    CASE pc = "press" -> {1}
      [] pc = "release" -> {2}
      [] pc = "done" -> 0..3
      [] OTHER -> {0}

\* C15: every performClick request dispatches mouseMoved, mousePressed and
\* mouseReleased in this order, one after the other, at the coordinates and
\* with the button of its message (left when the message names none), and
\* gets exactly one response, which is ok exactly when all three events
\* were dispatched.
C15_MoveThenPressThenRelease ==
    \A r \in Reqs :
        LET q == req[r] IN
        /\ Len(q.events) \in DispatchedAt(q.pc)
        /\ \A i \in 1..Len(q.events) :
              /\ q.events[i].type = ClickTypes[i]
              /\ q.events[i].x = q.x /\ q.events[i].y = q.y
              /\ q.events[i].button = (IF q.button = Undefined THEN "left" ELSE q.button)
              /\ q.events[i].clickCount = (IF i = 1 THEN 0 ELSE 1)
        /\ Len(q.resp) = (IF q.pc = "done" THEN 1 ELSE 0)
        /\ q.pc = "done" => (q.resp[1] = "ok" <=> Len(q.events) = 3)
        /\ q.pc = "done" => q.resp[1] \in {"ok", "fail"}

C15_Witness ==
    /\ \E r \in Reqs : req[r].pc = "done" /\ req[r].resp = <<"ok">>
                         /\ Len(req[r].events) = 3 /\ req[r].button = Undefined
    /\ \E r \in Reqs : req[r].pc \in {"move", "press", "release"}

\* C16: while the requests are for one tab, attachedTarget is non-null
\* exactly when the debugger is attached to that tab.
C16_RecordMatchesDebugger ==
    gameTab # 2 => dbg = (IF attachedTarget = 0 THEN {} ELSE {attachedTarget})

(* Claims about waitForCondition (checked under SpecWait).                 *)
(***************************************************************************)
CancelPresent(a) == foundCancelText(cancelTexts(a.cancel), wText)

Elapsed(a, start) == now - start >= a.timeout

\* C5: called with an always-falsy predicate while a cancel text is in the
\* page text, waitForCondition resolves to null in the call itself: one
\* evaluation, no timer scheduled, whatever the timeout and the interval.
C5_CancelAtOnce ==
    [][(wPc = "idle" /\ wPc' # "idle" /\ wArgs'.fn = "never" /\ CancelPresent(wArgs'))
         => (wPc' = "resolved" /\ wResult' = NullResult /\ wEvals' = 1
             /\ wResolves' = 1)]_vars

C5_Witness ==
    /\ wPc = "resolved"
    /\ wArgs.fn = "never"
    /\ wArgs.timeout > 0
    /\ wArgs.cancel.kind = "array"
    /\ CancelPresent(wArgs)
    /\ wText # CancelFrags
    /\ wEvals = 1
    /\ wResult = NullResult
    /\ now = wStart

\* C6: every evaluation resolves with the predicate's value when that is
\* truthy (also with a cancel text on the page or the timeout elapsed),
\* otherwise with null when a cancel text is on the page or the timeout has
\* elapsed, otherwise not at all; the promise is resolved at most once, never
\* before the first evaluation, and nothing runs after it was resolved.
C6_ResolveOnce ==
    [][/\ (wPc = "idle" /\ wPc' # "idle") \/ (wPc = "scheduled" /\ wEvals' # wEvals)
          \/ (wPc = "scheduled" /\ wPc' = "resolved") \/ (wPc = "scheduled" /\ wDue' # wDue)
          => LET a == wArgs'
                 st == wStart'
             IN IF conditionFn(a) # Falsy
                THEN wPc' = "resolved" /\ wResult' = conditionFn(a) /\ wResolves' = 1
                ELSE IF CancelPresent(a) \/ Elapsed(a, st)
                THEN wPc' = "resolved" /\ wResult' = NullResult /\ wResolves' = 1
                ELSE wPc' = "scheduled" /\ wResolves' = 0
       /\ wPc = "resolved" => UNCHANGED <<wPc, wResult, wResolves, wEvals, wDue>>
       /\ wPc' = "resolved" => wEvals' >= 1 /\ wResolves' = 1
       /\ wPc' # "resolved" => wResolves' = 0]_vars

\* a truthy predicate won against a cancel text that was on the page and a
\* zero timeout
C6_Witness ==
    /\ wPc = "resolved"
    /\ wResult \in Elements
    /\ wArgs.fn = "dom"
    /\ wArgs.timeout = 0
    /\ CancelPresent(wArgs)
    /\ predVal = wResult
    /\ wEvals = 1

(***************************************************************************)
(* Claims about the PlayerInfo extraction (checked under SpecInfo).        *)
(***************************************************************************)

\* C4: in the PlayerInfo built by inGame, for each pair slot the role is null
\* if and only if the seat number is null; a paired row whose icons are all
\* decorations gets the role Unknown.
C4_RoleIffNumber ==
    gPc = "built" =>
       /\ (info.coupleRole1 = Null) <=> (info.coupleNumber1 = Null)
       /\ (info.coupleRole2 = Null) <=> (info.coupleNumber2 = Null)

\* the rows that show the pairing sticker and are not the operating player's
PairedOthers ==
    {i \in 1..Len(roster) :
        /\ ~roster[i].mine
        /\ \E j \in 1..Len(roster[i].icons) : roster[i].icons[j] = Sticker}

\* C21: when fewer than two paired entries other than the operating player
\* exist, the number and the role of both couple slots of PlayerInfo are null.
C21_FewPairsNullSlots ==
    (gPc = "built" /\ Cardinality(PairedOthers) < 2) =>
        /\ info.coupleNumber1 = Null /\ info.coupleRole1 = Null
        /\ info.coupleNumber2 = Null /\ info.coupleRole2 = Null

\* the rows of the operating player
OwnRows == {i \in 1..Len(roster) : roster[i].mine}

\* the role of the last icon of a row that is not a decoration
LastRoleOf(icons) ==
    LET keep == {j \in 1..Len(icons) : ~IsDecoration(icons[j])}
    IN IF keep = {} THEN "Unknown"
       ELSE getPlayerRole(icons[CHOOSE j \in keep : \A k \in keep : k <= j])

\* C22: PlayerInfo.role is the role of the last icon of the operating
\* player's roster entry that is not a decoration, Unknown if there is none,
\* whether or not the entry shows the pairing sticker.
C22_OwnRoleFromOwnRow ==
    (gPc = "built" /\ Cardinality(OwnRows) = 1) =>
        \A i \in OwnRows : info.role = LastRoleOf(roster[i].icons)

\* the handler that inGame dispatched to is a day or a night handler
HandlerInvoked == gPc # "idle" /\ label \in {"Discussion", "Voting", ""}

\* C2: if a game-over word (Continue, Play again, Victory, Defeat, Draw) is
\* on the page when inGameDay or inGameNight is invoked, the handler returns
\* without issuing any click or chat message, whatever the role and pairing.
C2_OverAtEntryNoAct ==
    (HandlerInvoked /\ entryOver \cap GameOverWords # {}) => (acts = {} /\ gPc = "done")

C2_Witness ==
    /\ HandlerInvoked
    /\ entryOver = {"Victory"}
    /\ armed
    /\ info.role = "Priest"
    /\ info.coupleRole1 = "Wolf"
    /\ gPc = "done"

\* C3: no click and no chat message of the day or night role logic is issued
\* while a game-over word is on the page, also when the game ends while the
\* handler is suspended or has a pending timer callback.
C3_NoActWhenOver == \A a \in acts : ~a.over

\* the rows of the partners, and those of them whose role icon is the Priest's
PartnerRows == {othersOf(roster)[k] : k \in 1..Len(othersOf(roster))}

PriestRows ==
    {i \in PartnerRows : getRoleFromImage(extractRoleImage(roster[i].icons)) = "Priest"}

\* C7: at night, when the operating role is Wolf and a partner is a Priest,
\* every chat message sent carries the marker priest and the seat number of
\* the Priest partner, and no click on a partner's row is issued.
C7_PriestWarning ==
    (HandlerInvoked /\ label = "" /\ info.role = "Wolf" /\ PriestRows # {}) =>
        /\ \A a \in acts : a.kind = "chat" =>
              /\ a.msg.form = "priest"
              /\ \E i \in PriestRows : a.msg.num = roster[i].seat
        /\ \A a \in acts : a.kind = "row" => a.row \notin PartnerRows

\* the role the icons of a roster row show
RowRole(i) == getPlayerRole(extractRoleImage(roster[i].icons))

\* the partner rows whose role is on the wolf team
WolfPartners == {i \in PartnerRows : RowRole(i) \in WOLF_ROLES}

\* C23: in the day phase, when exactly one of the two partners is on the
\* wolf team, every row click of the day vote is on the row of the partner
\* that is not on the wolf team.
C23_DayVoteOnNonWolfPartner ==
    (/\ HandlerInvoked
     /\ label \in {"Discussion", "Voting"}
     /\ Cardinality(PartnerRows) = 2
     /\ Cardinality(WolfPartners) = 1) =>
        \A a \in acts : a.kind = "row" => a.row \in PartnerRows \ WolfPartners

\* C24: at night, when both partners' roles are in WOLF_ROLES, or partner 1
\* is on the wolf team and slot 2 is null, the handler of a Wolf, Junior
\* Werewolf or Split Wolf sends no chat message and issues no click.
C24_WolfPairNoNightAction ==
    (/\ HandlerInvoked
     /\ label = ""
     /\ info.role \in {"Wolf", "Junior Werewolf", "Split Wolf"}
     /\ info.coupleRole1 \in WOLF_ROLES
     /\ (info.coupleRole2 \in WOLF_ROLES \/ info.coupleRole2 = Null)) =>
        (acts = {} /\ smPc = "none" /\ cbPc = "none")

\* a Wolf with one wolf partner and an empty second slot, after the 25s
\* prompt appeared with the game going on
C24_Witness ==
    /\ HandlerInvoked
    /\ label = ""
    /\ info.role = "Wolf"
    /\ info.coupleRole1 \in WOLF_ROLES
    /\ info.coupleRole2 = Null
    /\ lastWait = "found"
    /\ over = {}
    /\ gPc = "done"

\* C25: in the night tagging flow of a Junior Werewolf or a Split Wolf, the
\* click on the partner's row after the chat message is issued unless a
\* partner is the Priest; with a Priest partner it is suppressed, for both
\* operating roles alike.
C25_PriestPartnerNoRowClick ==
    (/\ HandlerInvoked
     /\ label = ""
     /\ info.role \in {"Junior Werewolf", "Split Wolf"}
     /\ smPc = "done") =>
        IF isPriestCoupled(info)
        THEN \A a \in acts : a.kind # "row"
        ELSE smTarget # 0 => \E a \in acts : a.kind = "row" /\ a.row = smTarget

\* C26: the tagging target is the first 1-2 digit number of the chat, in
\* transcript order, that is none of the three seats of the player info; the
\* marker click is issued inside the roster row whose seat number equals it,
\* also when seats are missing from the roster, and never inside the
\* operating player's or a partner's row.
C26_TagClickOnSeatRow ==
    (HandlerInvoked /\ label = "") =>
        \A a \in acts : a.kind = "tag" =>
            /\ ParseInt(roster[a.row].seat) = ParseInt(taggedFrom(info, 1))
            /\ ~roster[a.row].mine
            /\ a.row \notin PartnerRows

\* C27: when the number inferred from the chat has no roster row, or that
\* row has no selection-marker control, the tagging step issues no click and
\* raises no exception.
C27_NoRowNoClickNoThrow ==
    (/\ HandlerInvoked
     /\ label = ""
     /\ info.role \in {"Junior Werewolf", "Split Wolf"}
     /\ cbPc \notin {"none", "tag"}
     /\ taggedFrom(info, 1) # Undefined
     /\ (ParseInt(taggedFrom(info, 1)) \notin 1..Len(roster) \/ ~armed)) =>
        /\ cbPc # "threw"
        /\ \A a \in acts : a.kind # "tag"

\* the shoot clicks issued so far
ShootClicks == {a \in acts : a.kind = "ability"}

\* C28: shooterAction started with threshold 2 makes at most three search
\* attempts (thresholds 2, 3 and 4): it never waits for more than 4 vote
\* markers, recurses only when no target was found, and issues at most one
\* shoot click per invocation.
C28_ShooterThreeAttempts ==
    (HandlerInvoked /\ info.role = "Shooter") =>
        /\ need <= 5
        /\ gPc = "s_wait" => need \in 2..4
        /\ gPc \in {"s_wait", "s_sleep200", "s_sleep500"} => ShootClicks = {}
        /\ Cardinality(ShootClicks) <= 1

\* the third attempt found no target either and the search has ended
C28_Witness ==
    /\ HandlerInvoked
    /\ info.role = "Shooter"
    /\ need = 5
    /\ gPc = "done"
    /\ ShootClicks = {}

\* C29: whenever the Shooter logic issues a shoot click in the day phase, the
\* targeted row shows a vote-selected marker, is not the row of either
\* partner and is not the operating player's own row.
C29_ShootTargetVotedOutsider ==
    [][\A a \in acts' \ acts :
          (/\ a.kind = "ability"
           /\ info'.role = "Shooter"
           /\ label \in {"Discussion", "Voting"}) =>
              /\ a.row \in Voted
              /\ a.row \notin PartnerRows
              /\ ~roster[a.row].mine]_vars

\* C30: in a cycle classified LOBBY in which a visible START GAME control
\* exists and no MORE PLAYERS REQUIRED control exists, the lobby handler
\* issues a click on the START GAME control.
C30_LobbyClicksStartGame ==
    [][\A c \in Chains :
          (/\ Track(c)
           /\ chain[c].st = "LOBBY"
           /\ "START GAME" \in page.inner
           /\ ~page.more
           /\ (lobbyEntryTimestamp = NullTime
                 \/ now - lobbyEntryTimestamp <= LOBBY_TIMEOUT)) =>
              Len(sent') > Len(sent)]_vars

\* C38: every chat message sent by the night Wolf logic names the seat
\* number of an existing paired partner whose role is not in WOLF_ROLES; no
\* message is sent and no send click is issued when the operating Wolf has
\* no paired partner.
C38_WolfMessageNamesPartner ==
    (HandlerInvoked /\ label = "" /\ info.role = "Wolf") =>
        \A a \in acts : a.kind = "chat" =>
            \E i \in PartnerRows :
                /\ roster[i].seat = a.msg.num
                /\ RowRole(i) \notin WOLF_ROLES

\* C39: every click or chat action caused by an iteration of main is issued
\* before that iteration settles: once inGame, which main awaits, has
\* returned or thrown, no further action is issued (none from a leftover
\* timer callback, none from an un-awaited sendMessageAndAct).
C39_NoActionAfterSettle ==
    [][(gPc \in {"done", "threw"}) => (acts' = acts)]_vars

\* the role the icons of the operating player's row show
OwnRole == getPlayerRole(extractRoleImage(roster[myPlayerElement(roster)].icons))

\* some message of the transcript has the own seat number as a word
OwnSeatInChat ==
    \E m \in 1..Len(chat) : \E w \in 1..Len(chat[m]) : chat[m][w] = info.number

StateOrder ==
    <<"POST_GAME", "IN_GAME", "ROLE_SELECTION", "CUSTOM", "GAME_SCREEN", "HOME_SCREEN",
      "LOBBY">>

\* whether the page shows what stands for the state
ShowsState(p, st) ==
    CASE st = "POST_GAME" -> "Continue" \in p.inner
      [] st = "IN_GAME" ->
            /\ {"Welcome to the werewolves chat.", "Voting"} \cap p.inner # {}
            /\ p.tc \cap GameOverWords = {}
      [] st = "ROLE_SELECTION" -> {"SELECT A ROLE", "Team: You belong to"} \cap p.inner # {}
      [] st = "CUSTOM" -> "CREATE GAME" \in p.inner
      [] st = "GAME_SCREEN" -> "CUSTOM GAME" \in p.inner
      [] st = "HOME_SCREEN" -> "INVENTORY" \in p.inner
      [] st = "LOBBY" -> {"START GAME", "INVITE"} \subseteq p.inner
      [] OTHER -> FALSE

\* C11: for every combination of text fragments determineGameState returns
\* the first state of the order POST_GAME, IN_GAME, ROLE_SELECTION, CUSTOM,
\* GAME_SCREEN, HOME_SCREEN, LOBBY that the page shows, UNKNOWN if it shows
\* none, and never IN_GAME while a game-over word is on the page.
C11_FirstMatchWins ==
    lastCheck.calls > 0 =>
        /\ \A i \in 1..Len(StateOrder) :
              (ShowsState(page, StateOrder[i])
                 /\ \A j \in 1..(i - 1) : ~ShowsState(page, StateOrder[j]))
              => lastCheck.res = StateOrder[i]
        /\ (\A i \in 1..Len(StateOrder) : ~ShowsState(page, StateOrder[i]))
              => lastCheck.res = "UNKNOWN"
        /\ lastCheck.res = "IN_GAME" => page.tc \cap GameOverWords = {}

C11_Witness ==
    /\ lastCheck.calls > 0
    /\ lastCheck.res = "IN_GAME"
    /\ {"Voting", "INVENTORY", "START GAME", "INVITE", "CUSTOM GAME"} \subseteq page.inner

====
